---- MODULE Spec2Model ----
(***************************************************************************)
(* A model of the OxCLang compiler front end: the transition-diagram       *)
(* lexer (src/Lexer/lexer.py with src/Lexer/delimiters.py) and the         *)
(* predictive recursive-descent parser (src/Lexer/parser.py).              *)
(*                                                                         *)
(* A source text is a sequence of one-character strings.  Lexer.peek()     *)
(* returns '' past the end of the text; that is the string "" here.        *)
(***************************************************************************)
EXTENDS Integers, Sequences, FiniteSets, TLC

(***************************************************************************)
(* Character classes: str.isalpha, str.isdigit, str.isalnum, str.isspace   *)
(* and ord(c) < 128 on the characters the model's texts are made of.       *)
(* "U+00E9" stands for one non-ASCII letter.                               *)
(***************************************************************************)
Lower ==
    {"a", "b", "c", "d", "e", "f", "g", "h", "i", "j", "k", "l", "m",
     "n", "o", "p", "q", "r", "s", "t", "u", "v", "w", "x", "y", "z"}

Upper ==
    {"A", "B", "C", "D", "E", "F", "G", "H", "I", "J", "K", "L", "M",
     "N", "O", "P", "Q", "R", "S", "T", "U", "V", "W", "X", "Y", "Z"}

NonAscii == {"U+00E9"}

Whitespace == {" ", "\t", "\n", "\r"}

Punct ==
    {"+", "-", "*", "/", "%", "(", ")", "{", "}", "[", "]", ">", "<", "=",
     "!", "\\", ":", ".", "~", ",", "@", "&", "|", "\"", "'", "_", "#",
     "$", "?", ";"}

nozenum == {"1", "2", "3", "4", "5", "6", "7", "8", "9"}

nums == {"0"} \cup nozenum

arithmetic == {"+", "-", "*", "/", "%"}

relational == {"<", ">"}

logical == {"&", "|"}

operator == arithmetic \cup relational \cup logical \cup {"=", "!"}

Chars == Lower \cup Upper \cup NonAscii \cup nums \cup Whitespace \cup Punct

isspace(c) == c \in Whitespace

isalpha(c) == c \in Lower \cup Upper \cup NonAscii

isdigit(c) == c \in nums

isalnum(c) == isalpha(c) \/ isdigit(c)

isascii(c) == c \notin NonAscii

(***************************************************************************)
(* The follow-delimiter predicates of delimiters.py.  Each accepts the     *)
(* end of input (if not char: return True).                                *)
(***************************************************************************)
spc_only_dlm(c) == c = "" \/ isspace(c)

wspace_dlm(c) == c = "" \/ isspace(c)

fun_dlm(c) == c = "" \/ isspace(c) \/ c = "("

term_dlm(c) == c = "" \/ isspace(c) \/ c = "\n" \/ isalpha(c) \/ c = "}"

num_dlm(c) ==
    c = "" \/ isspace(c) \/ c \in operator \/ c = "\n"
        \/ c \in {",", "~", ")", "]", "}", ":"}

singq_dlm(c) == c = "" \/ isspace(c) \/ c = "=" \/ c \in {",", "~", ")", "}", ":"}

doubq_dlm(c) == c = "" \/ isspace(c) \/ c = "=" \/ c \in {",", "~", "+", ")", "}"}

bool_dlm(c) == c = "" \/ isspace(c) \/ c \in {"~", ",", ")"} \/ c \in logical

id_dlm(c) ==
    c = "" \/ isspace(c) \/ c \in operator \/ c = "\n"
        \/ c \in {"(", ")", ",", ".", "~", "[", "]", "{", "}"}

ass_dlm(c) == c = "" \/ isspace(c) \/ isalnum(c) \/ c \in {"(", "{", "-"}

equal_dlm(c) == c = "" \/ isspace(c) \/ isalnum(c) \/ c \in {"(", "\"", "{", "-"}

not_dlm(c) == c = "" \/ isalpha(c) \/ c = "("

eqto_dlm(c) == c = "" \/ isspace(c) \/ isalnum(c) \/ c \in {"\"", "'", "(", "-"}

rel_dlm(c) == c = "" \/ isspace(c) \/ isalnum(c) \/ c \in {"-", "(", "'"}

log_dlm(c) == c = "" \/ isspace(c) \/ isalnum(c) \/ c \in {"-", "("}

do_dlm(c) == c = "" \/ isspace(c) \/ c = "{"

ctrl_dlm(c) == c = "" \/ isspace(c) \/ c = "~"

colon_dlm(c) == c = "" \/ isspace(c) \/ isalpha(c) \/ c = "\n"

strm_dlm(c) == c = "" \/ isspace(c) \/ c = ":"

arith_dlm(c) == c = "" \/ isspace(c) \/ isalnum(c) \/ c \in {"(", "'", "-"}

amper_dlm(c) == c = "" \/ isspace(c) \/ c \in {"\"", "'"}

sub_dlm(c) == c = "" \/ isspace(c) \/ isalnum(c) \/ c \in {"(", "'"}

unary_dlm(c) == c = "" \/ isspace(c) \/ isalpha(c) \/ c \in {"~", ")"}

comma_dlm(c) == c = "" \/ isspace(c) \/ isalnum(c) \/ c \in {"\"", "'", "-", "{"}

closecurl_dlm(c) ==
    c = "" \/ isspace(c) \/ isalpha(c) \/ c \in {"~", "}", ","} \/ c = "\n"

closepare_dlm(c) ==
    c = "" \/ isspace(c) \/ c \in operator \/ c = "\n"
        \/ c \in {"~", "}", "{", ")", "]", ","}

closesqua_dlm(c) ==
    c = "" \/ isspace(c) \/ c \in operator \/ c \in {",", "~", ")", "["}

opencurl_dlm(c) ==
    c = "" \/ isspace(c) \/ isalnum(c) \/ c = "\n" \/ c \in {"\"", "'", "}", "{"}

openpare_dlm(c) ==
    c = "" \/ isspace(c) \/ isalnum(c) \/ c = "\n"
        \/ c \in {"\"", "'", "(", ")", "-", "!"}

opensqua_dlm(c) == c = "" \/ isspace(c) \/ isalnum(c) \/ c \in {"(", "]"}

(***************************************************************************)
(* The state.  source_code .. id_map are the fields of the Lexer object    *)
(* whose tokenize() loop is run one iteration per step; lexer2 is a        *)
(* second Lexer object over the same text, whose tokenize() is called once *)
(* the first has returned.  pc is where the calling code is.               *)
(***************************************************************************)
VARIABLES source_code, position, line, column, tokens, id_counter, id_map,
          lexer2, pc

lexvars == <<source_code, position, line, column, tokens, id_counter, id_map>>

\* parser is the Parser object, frames the stack of the calls of its methods
\* that are active, control says whether the parser runs, raises or has
\* returned, and result is what parse() returned.  history records, for the
\* properties only, where each ParseError was recorded, how many calls of
\* error() recorded nothing, and the state at the first failing match.
VARIABLES parser, frames, control, result, history

parservars == <<parser, frames, control, result, history>>

\* semantic holds the SemanticAnalyzer object of the run and the list that
\* its analyze() returned.
VARIABLES semantic

vars == <<source_code, position, line, column, tokens, id_counter, id_map,
          lexer2, pc, parser, frames, control, result, history, semantic>>

\* A faulty constructor whose identifier numbering does not start afresh.
Lexer_stale_counter(text) ==
    [source_code |-> text, position |-> 0, line |-> 1, column |-> 1,
     tokens |-> << >>, id_counter |-> 1, id_map |-> << >>]

\* class Token: is_error is derived from the type.
Token(type, value, ln, col) ==
    [type |-> type, value |-> value, line |-> ln, column |-> col,
     is_error |-> (type = "ERROR")]

\* Lexer.__init__
Lexer(text) ==
    [source_code |-> text, position |-> 0, line |-> 1, column |-> 1,
     tokens |-> << >>, id_counter |-> 0, id_map |-> << >>]

\* The first Lexer object as a record.
self ==
    [source_code |-> source_code, position |-> position, line |-> line,
     column |-> column, tokens |-> tokens, id_counter |-> id_counter,
     id_map |-> id_map]

\* The character at 0-based index pos of the text, '' past its end.
char_at(text, pos) == IF pos < Len(text) THEN text[pos + 1] ELSE ""

peek(lx, offset) == char_at(lx.source_code, lx.position + offset)

\* peek_backwards(skip_whitespace=True): the nearest character before the
\* current position that is not whitespace, '' when there is none.
peek_backwards(lx) ==
    LET cand == {p \in 0..(lx.position - 1) : ~isspace(lx.source_code[p + 1])}
    IN  IF cand = {} THEN ""
        ELSE lx.source_code[(CHOOSE p \in cand : \A q \in cand : q <= p) + 1]

advance(lx) ==
    IF lx.position < Len(lx.source_code)
    THEN IF lx.source_code[lx.position + 1] = "\n"
         THEN [lx EXCEPT !.position = @ + 1, !.line = @ + 1, !.column = 1]
         ELSE [lx EXCEPT !.position = @ + 1, !.column = @ + 1]
    ELSE lx

error(lx, message, ln, col) ==
    [lx EXCEPT !.tokens = Append(@, Token("ERROR", message, ln, col))]

emit(lx, type, value, ln, col) ==
    [lx EXCEPT !.tokens = Append(@, Token(type, value, ln, col))]

\* advance() repeated until the position is p.
RECURSIVE advance_to(_, _)
advance_to(lx, p) ==
    IF lx.position >= p THEN lx ELSE advance_to(advance(lx), p)

\* The position at which a loop
\*     while self.peek() and Continue(self.peek()): self.advance()
\* entered at position from stops.
while_end(text, from, Continue(_)) ==
    CHOOSE p \in from..Len(text) :
        /\ \A q \in from..(p - 1) : Continue(text[q + 1])
        /\ (p = Len(text) \/ ~Continue(text[p + 1]))

\* The characters source_code[a .. b-1] joined into one string.
RECURSIVE lexeme(_, _, _)
lexeme(text, a, b) ==
    IF a >= b THEN "" ELSE text[a + 1] \o lexeme(text, a + 1, b)

\* Like lexeme, keeping only the characters with ord(c) < 128.
RECURSIVE ascii_lexeme(_, _, _)
ascii_lexeme(text, a, b) ==
    IF a >= b THEN ""
    ELSE (IF isascii(text[a + 1]) THEN text[a + 1] ELSE "")
            \o ascii_lexeme(text, a + 1, b)

\* A faulty rewind that leaves the lexer where the failed attempt stopped.
restore_nothing(lx, saved) == lx

restore(lx, saved) ==
    [lx EXCEPT !.position = saved.position, !.line = saved.line,
               !.column = saved.column]

\* What a td_* routine hands back: its return value and the lexer after it.
Ret(ok, lx) == [ok |-> ok, lx |-> lx]

isident(c) == isalnum(c) \/ c = "_"

continues_as_identifier(lx) == peek(lx, 0) # "" /\ isident(peek(lx, 0))

(***************************************************************************)
(* Keywords.  td_keyword is a hand-written trie; apart from else/elseif no *)
(* keyword is a prefix of another, so the trie reaches the delimiter check *)
(* of keyword K exactly when the text at the current position starts with  *)
(* K.  dlm names the delimiter predicate the trie passes for K.            *)
(***************************************************************************)
keyword_dlm(tag, c) ==
    CASE tag = "wspace" -> wspace_dlm(c)
      [] tag = "fun" -> fun_dlm(c)
      [] tag = "strm" -> strm_dlm(c)
      [] tag = "do" -> do_dlm(c)
      [] tag = "ctrl" -> ctrl_dlm(c)
      [] tag = "bool" -> bool_dlm(c)

KeywordTrie ==
    {[name |-> "air", chars |-> <<"a", "i", "r">>, dlm |-> "wspace"],
     [name |-> "atmosphere", chars |-> <<"a", "t", "m", "o", "s", "p", "h", "e", "r", "e">>, dlm |-> "fun"],
     [name |-> "bool", chars |-> <<"b", "o", "o", "l">>, dlm |-> "wspace"],
     [name |-> "case", chars |-> <<"c", "a", "s", "e">>, dlm |-> "wspace"],
     [name |-> "char", chars |-> <<"c", "h", "a", "r">>, dlm |-> "wspace"],
     [name |-> "cycle", chars |-> <<"c", "y", "c", "l", "e">>, dlm |-> "fun"],
     [name |-> "diffuse", chars |-> <<"d", "i", "f", "f", "u", "s", "e">>, dlm |-> "strm"],
     [name |-> "do", chars |-> <<"d", "o">>, dlm |-> "do"],
     [name |-> "echo", chars |-> <<"e", "c", "h", "o">>, dlm |-> "fun"],
     [name |-> "exhale", chars |-> <<"e", "x", "h", "a", "l", "e">>, dlm |-> "fun"],
     [name |-> "float", chars |-> <<"f", "l", "o", "a", "t">>, dlm |-> "wspace"],
     [name |-> "flow", chars |-> <<"f", "l", "o", "w">>, dlm |-> "ctrl"],
     [name |-> "gasp", chars |-> <<"g", "a", "s", "p">>, dlm |-> "wspace"],
     [name |-> "gust", chars |-> <<"g", "u", "s", "t">>, dlm |-> "wspace"],
     [name |-> "horizon", chars |-> <<"h", "o", "r", "i", "z", "o", "n">>, dlm |-> "fun"],
     [name |-> "if", chars |-> <<"i", "f">>, dlm |-> "fun"],
     [name |-> "inhale", chars |-> <<"i", "n", "h", "a", "l", "e">>, dlm |-> "fun"],
     [name |-> "int", chars |-> <<"i", "n", "t">>, dlm |-> "wspace"],
     [name |-> "naur", chars |-> <<"n", "a", "u", "r">>, dlm |-> "bool"],
     [name |-> "resist", chars |-> <<"r", "e", "s", "i", "s", "t">>, dlm |-> "ctrl"],
     [name |-> "sizeOf", chars |-> <<"s", "i", "z", "e", "O", "f">>, dlm |-> "fun"],
     [name |-> "stream", chars |-> <<"s", "t", "r", "e", "a", "m">>, dlm |-> "fun"],
     [name |-> "string", chars |-> <<"s", "t", "r", "i", "n", "g">>, dlm |-> "wspace"],
     [name |-> "toBool", chars |-> <<"t", "o", "B", "o", "o", "l">>, dlm |-> "fun"],
     [name |-> "toChar", chars |-> <<"t", "o", "C", "h", "a", "r">>, dlm |-> "fun"],
     [name |-> "toFall", chars |-> <<"t", "o", "F", "a", "l", "l">>, dlm |-> "fun"],
     [name |-> "toFloat", chars |-> <<"t", "o", "F", "l", "o", "a", "t">>, dlm |-> "fun"],
     [name |-> "toInt", chars |-> <<"t", "o", "I", "n", "t">>, dlm |-> "fun"],
     [name |-> "toRise", chars |-> <<"t", "o", "R", "i", "s", "e">>, dlm |-> "fun"],
     [name |-> "toString", chars |-> <<"t", "o", "S", "t", "r", "i", "n", "g">>, dlm |-> "fun"],
     [name |-> "universal", chars |-> <<"u", "n", "i", "v", "e", "r", "s", "a", "l">>, dlm |-> "wspace"],
     [name |-> "vacuum", chars |-> <<"v", "a", "c", "u", "u", "m">>, dlm |-> "wspace"],
     [name |-> "wind", chars |-> <<"w", "i", "n", "d">>, dlm |-> "wspace"],
     [name |-> "waft", chars |-> <<"w", "a", "f", "t">>, dlm |-> "fun"],
     [name |-> "yuh", chars |-> <<"y", "u", "h">>, dlm |-> "bool"]}

else_chars == <<"e", "l", "s", "e">>

starts_with(lx, cs) ==
    /\ lx.position + Len(cs) <= Len(lx.source_code)
    /\ \A i \in 1..Len(cs) : lx.source_code[lx.position + i] = cs[i]

\* at is the lexer after the characters of the keyword, saved the lexer at
\* its first character.
check_keyword_delimiter(at, keyword_name, dlm, saved) ==
    IF continues_as_identifier(at)
    THEN Ret(FALSE, restore(at, saved))
    ELSE IF keyword_dlm(dlm, peek(at, 0))
    THEN Ret(TRUE, emit(at, keyword_name, keyword_name, saved.line, saved.column))
    ELSE IF peek(at, 0) = ""
    THEN Ret(TRUE, error(at, "expecting a valid delimiter: " \o keyword_name,
                         at.line, at.column))
    ELSE Ret(TRUE, error(at, "invalid character after '" \o keyword_name
                               \o "' keyword: " \o peek(at, 0),
                         at.line, at.column))

\* The branch of the trie below "else" (else itself, or elseif).
td_keyword_else(lx) ==
    LET next == peek(lx, 4)
        at == advance_to(lx, lx.position + 4)
    IN  IF do_dlm(next)
        THEN Ret(TRUE, emit(at, "else", "else", lx.line, lx.column))
        ELSE IF next = "i"
        THEN IF peek(lx, 5) = "f"
             THEN check_keyword_delimiter(advance_to(lx, lx.position + 6),
                                          "elseif", "fun", lx)
             ELSE Ret(FALSE, restore(advance_to(lx, lx.position + 5), lx))
        ELSE Ret(TRUE, error(at, "invalid character after 'else' keyword: "
                                   \o next, at.line, at.column))

td_keyword(lx) ==
    IF ~isalpha(peek(lx, 0)) THEN Ret(FALSE, lx)
    ELSE IF starts_with(lx, else_chars) THEN td_keyword_else(lx)
    ELSE IF \E k \in KeywordTrie : starts_with(lx, k.chars)
    THEN LET k == CHOOSE k \in KeywordTrie : starts_with(lx, k.chars)
         IN  check_keyword_delimiter(advance_to(lx, lx.position + Len(k.chars)),
                                     k.name, k.dlm, lx)
    ELSE Ret(FALSE, lx)

(***************************************************************************)
(* Literals and identifiers.                                               *)
(***************************************************************************)
in_quotes(c) == c \notin {"'", "\"", "\n"}

at_line_end(c) == c \in {"", "\n"}

\* The last five tokens hold a string_lit (self.tokens[-5:]).
recent_string_lit(lx) ==
    \E i \in 1..Len(lx.tokens) :
        i > Len(lx.tokens) - 5 /\ lx.tokens[i].type = "string_lit"

td_string(lx) ==
    IF peek(lx, 0) # "\"" THEN Ret(FALSE, lx)
    ELSE
    LET text == lx.source_code
        stop == while_end(text, lx.position + 1, in_quotes)
        string_content == ascii_lexeme(text, lx.position + 1, stop)
        next == char_at(text, stop + 1)
        closed == advance_to(lx, stop + 1)
    IN  IF char_at(text, stop) = "\""
        THEN IF doubq_dlm(next)
             THEN IF string_content # "" \/ ~recent_string_lit(lx)
                  THEN Ret(TRUE, emit(closed, "string_lit",
                                      "\"" \o string_content \o "\"",
                                      lx.line, lx.column))
                  ELSE Ret(TRUE, closed)
             ELSE IF at_line_end(next)
             THEN Ret(TRUE, error(closed, "expecting a valid delimiter: \""
                                    \o string_content \o "\"",
                                  closed.line, closed.column))
             ELSE Ret(TRUE, error(closed, "invalid character after \""
                                    \o string_content \o "\": " \o next,
                                  closed.line, closed.column))
        ELSE IF string_content = ""
        THEN Ret(TRUE, error(advance_to(lx, stop), "unterminated double quote",
                             lx.line, lx.column))
        ELSE Ret(TRUE, error(advance_to(lx, stop),
                             "unterminated double quote: \"" \o string_content,
                             lx.line, lx.column))

td_char(lx) ==
    IF peek(lx, 0) # "'" THEN Ret(FALSE, lx)
    ELSE
    LET text == lx.source_code
        stop == while_end(text, lx.position + 1, in_quotes)
        char_content == ascii_lexeme(text, lx.position + 1, stop)
        count == Cardinality({q \in (lx.position + 1)..(stop - 1) :
                                isascii(text[q + 1])})
        next == char_at(text, stop + 1)
        closed == advance_to(lx, stop + 1)
        quoted == "'" \o char_content \o "'"
        too_long ==
            "expected none or exactly one character between single quotes: "
                \o quoted
        delimiter == IF at_line_end(next)
                     THEN "expecting a valid delimiter: " \o quoted
                     ELSE "invalid character after " \o quoted \o ": " \o next
    IN  IF char_at(text, stop) = "'"
        THEN IF count <= 1
             THEN IF singq_dlm(next)
                  THEN Ret(TRUE, emit(closed, "char_lit", quoted,
                                      lx.line, lx.column))
                  ELSE Ret(TRUE, error(closed, delimiter,
                                       closed.line, closed.column))
             ELSE IF singq_dlm(next)
                  THEN Ret(TRUE, error(closed, too_long, lx.line, lx.column))
                  ELSE Ret(TRUE, error(error(closed, too_long,
                                             lx.line, lx.column),
                                       delimiter, closed.line, closed.column))
        ELSE IF char_content = ""
        THEN Ret(TRUE, error(advance_to(lx, stop), "unterminated single quote",
                             lx.line, lx.column))
        ELSE Ret(TRUE, error(advance_to(lx, stop),
                             "unterminated single quote: '" \o char_content,
                             lx.line, lx.column))

MAX_ID_LENGTH == 15

\* A faulty interning that forgets to count the new name.
intern_uncounted(lx, name) ==
    IF name \in DOMAIN lx.id_map THEN lx
    ELSE [lx EXCEPT !.id_map = (name :> ("id" \o ToString(lx.id_counter + 1)))
                                  @@ @]

\* id_map[name] as td_identifier leaves it: a new name takes the next tag.
intern(lx, name) ==
    IF name \in DOMAIN lx.id_map THEN lx
    ELSE [lx EXCEPT !.id_counter = @ + 1,
                    !.id_map = (name :> ("id" \o ToString(lx.id_counter + 1)))
                                  @@ @]

td_identifier(lx) ==
    IF ~isalpha(peek(lx, 0)) THEN Ret(FALSE, lx)
    ELSE
    LET text == lx.source_code
        stop == while_end(text, lx.position, isident)
        id_content == lexeme(text, lx.position, stop)
        next == char_at(text, stop)
        after == advance_to(lx, stop)
    IN  IF stop - lx.position > MAX_ID_LENGTH
        THEN Ret(TRUE, error(after, "'" \o id_content
                               \o "' exceeds max length of 15 characters",
                             lx.line, lx.column))
        ELSE IF ~id_dlm(next)
        THEN IF at_line_end(next)
             THEN Ret(TRUE, error(after, "expecting a valid delimiter: "
                                    \o id_content, after.line, after.column))
             ELSE Ret(TRUE, error(after, "invalid character after '"
                                    \o id_content \o "': " \o next,
                                  after.line, after.column))
        ELSE Ret(TRUE, emit(intern(after, id_content),
                            intern(lx, id_content).id_map[id_content],
                            id_content, lx.line, lx.column))

td_invalid_identifier(lx) ==
    IF peek(lx, 0) # "_" THEN Ret(FALSE, lx)
    ELSE
    LET stop == while_end(lx.source_code, lx.position + 1, isident)
    IN  Ret(TRUE, error(advance_to(lx, stop),
                        "invalid leading character (underscore): "
                            \o lexeme(lx.source_code, lx.position, stop),
                        lx.line, lx.column))

(***************************************************************************)
(* Number literals.  MAX_INT_DIGITS is len(str(self.MAX_INT)).             *)
(***************************************************************************)
MAX_INT_DIGITS == 10

MAX_FLOAT == 10

\* A faulty limit that lets one fractional digit too many through.
MAX_FLOAT_POINT_loose == MAX_FLOAT - 3

MAX_FLOAT_POINT == 6

digit_or_dot(c) == isdigit(c) \/ c = "."

\* f"{self.MAX_FLOAT}" and f"{self.MAX_FLOAT_POINT}" in the messages.
digits_text(n) == ToString(n)

td_number(lx) ==
    LET text == lx.source_code
        first == IF peek(lx, 0) = "-" THEN lx.position + 1 ELSE lx.position
        int_end == while_end(text, first, isdigit)
        seq_end == IF char_at(text, int_end) = "."
                   THEN while_end(text, int_end, digit_or_dot) ELSE int_end
        dots == {q \in int_end..(seq_end - 1) : text[q + 1] = "."}
        dot_count == Cardinality(dots)
        has_dot == \E q \in int_end..(seq_end - 1) :
                       /\ isdigit(text[q + 1])
                       /\ Cardinality({d \in dots : d < q}) = 1
        number == lexeme(text, lx.position, seq_end)
        integer_part == int_end - first
        decimal_part == seq_end - int_end - 1
        next == char_at(text, seq_end)
        mix_end == while_end(text, seq_end, isident)
        num == advance_to(lx, seq_end)
        delimiter_error ==
            IF at_line_end(next)
            THEN error(num, "expecting a valid delimiter: " \o number,
                       num.line, num.column)
            ELSE error(num, "invalid character after " \o number \o ": "
                              \o next, lx.line, lx.column)
    IN  IF ~isdigit(char_at(text, first))
        THEN Ret(FALSE, IF first > lx.position
                        THEN restore(advance(lx), lx) ELSE lx)
        ELSE IF dot_count > 1
        THEN Ret(TRUE, error(error(num,
                 "invalid number literal with multiple decimal points: "
                     \o number, lx.line, lx.column),
                 "number not expected after additional dots: " \o number,
                 lx.line, lx.column))
        ELSE IF dot_count = 1 /\ ~has_dot
        THEN Ret(TRUE, error(num, "expected digit after dot (.)",
                             lx.line, lx.column))
        ELSE IF next # "" /\ (isalpha(next) \/ next = "_")
        THEN Ret(TRUE, error(advance_to(lx, mix_end),
                             "invalid number literal: "
                                 \o lexeme(text, lx.position, mix_end),
                             lx.line, lx.column))
        ELSE IF has_dot
        THEN IF integer_part > MAX_FLOAT
             THEN Ret(TRUE, error(num, number
                        \o " exceeds maximum digits before decimal of "
                        \o digits_text(MAX_FLOAT), lx.line, lx.column))
             ELSE IF decimal_part > MAX_FLOAT_POINT
             THEN Ret(TRUE, error(num, number
                        \o " exceeds maximum decimal places of "
                        \o digits_text(MAX_FLOAT_POINT), lx.line, lx.column))
             ELSE IF num_dlm(next)
             THEN Ret(TRUE, emit(num, "float_lit", number, lx.line, lx.column))
             ELSE Ret(TRUE, delimiter_error)
        ELSE IF integer_part > MAX_INT_DIGITS
             THEN Ret(TRUE, error(num, number \o " exceeds maximum of 10 digits",
                                  lx.line, lx.column))
             ELSE IF num_dlm(next)
             THEN Ret(TRUE, emit(num, "int_lit", number, lx.line, lx.column))
             ELSE Ret(TRUE, delimiter_error)

(***************************************************************************)
(* Operators and structure symbols.                                        *)
(*                                                                         *)
(* symbol is the tail every branch of td_operator_structure ends with:     *)
(* start is the lexer at the first character of the symbol, at the lexer   *)
(* after the symbol's characters, ok the outcome of the symbol's delimiter *)
(* test on the next character.  The branches of + - * / put the token at   *)
(* the start of the symbol and every error at the current place (early);   *)
(* the other branches put the token at the current place and the error for *)
(* an unexpected character at the start.                                   *)
(***************************************************************************)
\* A faulty tail that emits the symbol whatever the delimiter test says.
symbol_unchecked(start, at, sym, ok, early) ==
    IF early
    THEN Ret(TRUE, emit(at, sym, sym, start.line, start.column))
    ELSE Ret(TRUE, emit(at, sym, sym, at.line, at.column))

symbol(start, at, sym, ok, early) ==
    IF ok
    THEN IF early
         THEN Ret(TRUE, emit(at, sym, sym, start.line, start.column))
         ELSE Ret(TRUE, emit(at, sym, sym, at.line, at.column))
    ELSE IF peek(at, 0) = ""
    THEN Ret(TRUE, error(at, "expecting a valid delimiter after '" \o sym \o "'",
                         at.line, at.column))
    ELSE IF early
    THEN Ret(TRUE, error(at, "invalid character after '" \o sym \o "': "
                           \o peek(at, 0), at.line, at.column))
    ELSE Ret(TRUE, error(at, "invalid character after '" \o sym \o "': "
                           \o peek(at, 0), start.line, start.column))

OperatorStart ==
    {"+", "-", "*", "/", "%", "(", ")", "{", "}", "[", "]", ">", "<", "=",
     "!", "\\", ":", ".", "~", ",", "@", "&", "|"}

not_newline(c) == c # "\n"

\* Where the loop of a block comment stops: at "~/" or at the end of input.
\* from is the position after the opening "/~".
comment_end(text, from) ==
    CHOOSE p \in from..Len(text) :
        LET closes(q) == char_at(text, q) = "~" /\ char_at(text, q + 1) = "/"
        IN  /\ \A q \in from..(p - 1) : ~closes(q)
            /\ (p = Len(text) \/ closes(p))

block_comment(lx) ==
    LET stop == comment_end(lx.source_code, lx.position + 2)
    IN  IF peek(lx, stop - lx.position) = "~"
        THEN advance_to(lx, stop + 2) ELSE advance_to(lx, stop)

td_operator_structure(lx) ==
    LET char == peek(lx, 0)
        a1 == advance_to(lx, lx.position + 1)
        a2 == advance_to(lx, lx.position + 2)
        n1 == peek(lx, 1)
        n2 == peek(lx, 2)
    IN
    IF char \notin OperatorStart THEN Ret(FALSE, lx)
    ELSE CASE char = "+" ->
              IF arith_dlm(n1) THEN symbol(lx, a1, "+", TRUE, TRUE)
              ELSE IF n1 = "+" THEN symbol(lx, a2, "++", unary_dlm(n2), TRUE)
              ELSE IF n1 = "=" THEN symbol(lx, a2, "+=", ass_dlm(n2), TRUE)
              ELSE symbol(lx, a1, "+", FALSE, TRUE)
         [] char = "-" ->
              IF sub_dlm(n1) THEN symbol(lx, a1, "-", TRUE, TRUE)
              ELSE IF n1 = "-" THEN symbol(lx, a2, "--", unary_dlm(n2), TRUE)
              ELSE IF n1 = "=" THEN symbol(lx, a2, "-=", ass_dlm(n2), TRUE)
              ELSE symbol(lx, a1, "-", FALSE, TRUE)
         [] char = "*" ->
              IF arith_dlm(n1) THEN symbol(lx, a1, "*", TRUE, TRUE)
              ELSE IF n1 = "=" THEN symbol(lx, a2, "*=", ass_dlm(n2), TRUE)
              ELSE symbol(lx, a1, "*", FALSE, TRUE)
         [] char = "/" ->
              IF arith_dlm(n1) THEN symbol(lx, a1, "/", TRUE, TRUE)
              ELSE IF n1 = "=" THEN symbol(lx, a2, "/=", ass_dlm(n2), TRUE)
              ELSE IF n1 = "/"
              THEN Ret(TRUE, advance_to(lx, while_end(lx.source_code,
                                                      lx.position + 2,
                                                      not_newline)))
              ELSE IF n1 = "~" THEN Ret(TRUE, block_comment(lx))
              ELSE symbol(lx, a1, "/", FALSE, TRUE)
         [] char = "%" ->
              IF arith_dlm(n1) THEN symbol(lx, a1, "%", TRUE, FALSE)
              ELSE IF n1 = "=" THEN symbol(lx, a2, "%=", ass_dlm(n2), FALSE)
              ELSE symbol(lx, a1, "%", FALSE, FALSE)
         [] char = "(" -> symbol(lx, a1, "(", openpare_dlm(n1), FALSE)
         [] char = ")" -> symbol(lx, a1, ")", closepare_dlm(n1), FALSE)
         [] char = "{" -> symbol(lx, a1, "{", opencurl_dlm(n1), FALSE)
         [] char = "}" -> symbol(lx, a1, "}", closecurl_dlm(n1), FALSE)
         [] char = "[" -> symbol(lx, a1, "[", opensqua_dlm(n1), FALSE)
         [] char = "]" -> symbol(lx, a1, "]", closesqua_dlm(n1), FALSE)
         [] char = ">" ->
              IF rel_dlm(n1) THEN symbol(lx, a1, ">", TRUE, FALSE)
              ELSE IF n1 = "=" THEN symbol(lx, a2, ">=", rel_dlm(n2), FALSE)
              ELSE symbol(lx, a1, ">", FALSE, FALSE)
         [] char = "<" ->
              IF rel_dlm(n1) THEN symbol(lx, a1, "<", TRUE, FALSE)
              ELSE IF n1 = "=" THEN symbol(lx, a2, "<=", rel_dlm(n2), FALSE)
              ELSE symbol(lx, a1, "<", FALSE, FALSE)
         [] char = "=" ->
              IF equal_dlm(n1) THEN symbol(lx, a1, "=", TRUE, FALSE)
              ELSE IF n1 = "=" THEN symbol(lx, a2, "==", eqto_dlm(n2), FALSE)
              ELSE symbol(lx, a1, "=", FALSE, FALSE)
         [] char = "!" ->
              IF not_dlm(n1) THEN symbol(lx, a1, "!", TRUE, FALSE)
              ELSE IF n1 = "=" THEN symbol(lx, a2, "!=", eqto_dlm(n2), FALSE)
              ELSE symbol(lx, a1, "!", FALSE, FALSE)
         [] char = "&" ->
              IF amper_dlm(n1) THEN symbol(lx, a1, "&", TRUE, FALSE)
              ELSE IF n1 = "&" THEN symbol(lx, a2, "&&", log_dlm(n2), FALSE)
              ELSE symbol(lx, a1, "&", FALSE, FALSE)
         [] char = "|" ->
              IF n1 = "|" THEN symbol(lx, a2, "||", log_dlm(n2), FALSE)
              ELSE Ret(TRUE, error(a1,
                         "'|' is not recognized. (Did you mean '||'?)",
                         a1.line, a1.column))
         [] char = ":" -> symbol(lx, a1, ":", colon_dlm(n1), FALSE)
         [] char = "." -> symbol(lx, a1, ".", isalpha(n1), FALSE)
         [] char = "~" -> symbol(lx, a1, "~", term_dlm(n1), FALSE)
         [] char = "," -> symbol(lx, a1, ",", comma_dlm(n1), FALSE)
         [] OTHER -> Ret(FALSE, lx)

(***************************************************************************)
(* One iteration of the main loop of tokenize: the routine that handles    *)
(* the text at the current position and the lexer it leaves.  A routine    *)
(* that returns False hands the lexer it leaves to the next one.           *)
(***************************************************************************)
Took(routine, lx) == [routine |-> routine, lx |-> lx]

skip_whitespace(lx) ==
    advance_to(lx, while_end(lx.source_code, lx.position, isspace))

unknown(lx) ==
    emit(advance(lx), "ERROR", "\"" \o peek(lx, 0) \o "\" is not recognized",
         lx.line, lx.column)

\* The routines tokenize tries on a character that is not '-', in order.
Chain ==
    <<"td_string", "td_char", "td_number", "td_keyword", "td_identifier",
      "td_operator_structure", "td_invalid_identifier">>

\* A faulty test for an operand before '-' that forgets the closing brackets.
after_operand_alnum(lx) ==
    LET prev_char == peek_backwards(lx)
    IN  prev_char # "" /\ isalnum(prev_char)

\* prev_char and (prev_char.isalnum() or prev_char in ')]}')
after_operand(lx) ==
    LET prev_char == peek_backwards(lx)
    IN  prev_char # "" /\ (isalnum(prev_char) \/ prev_char \in {")", "]", "}"})

\* The routines one iteration tries, in order: on '-' the operator routine
\* (after an operand) or the number routine and then the operator routine
\* come before the chain.
order(lx) ==
    IF peek(lx, 0) = "-"
    THEN IF after_operand(lx)
         THEN <<"td_operator_structure">> \o Chain
         ELSE <<"td_number", "td_operator_structure">> \o Chain
    ELSE Chain

run(routine, lx) ==
    CASE routine = "td_string" -> td_string(lx)
      [] routine = "td_char" -> td_char(lx)
      [] routine = "td_number" -> td_number(lx)
      [] routine = "td_keyword" -> td_keyword(lx)
      [] routine = "td_identifier" -> td_identifier(lx)
      [] routine = "td_operator_structure" -> td_operator_structure(lx)
      [] routine = "td_invalid_identifier" -> td_invalid_identifier(lx)

RECURSIVE attempt(_, _)
attempt(routines, lx) ==
    IF routines = << >> THEN Took("unknown", unknown(lx))
    ELSE LET r == run(Head(routines), lx)
         IN  IF r.ok THEN Took(Head(routines), r.lx)
             ELSE attempt(Tail(routines), r.lx)

iteration(lx) ==
    IF isspace(peek(lx, 0)) THEN Took("whitespace", skip_whitespace(lx))
    ELSE attempt(order(lx), lx)

\* tokenize() run to its return on a Lexer object.
RECURSIVE tokenize(_)
tokenize(lx) ==
    IF lx.position < Len(lx.source_code) THEN tokenize(iteration(lx).lx)
    ELSE lx

(***************************************************************************)
(* The parser (parser.py).  A method of the Parser that parses a grammar   *)
(* rule is a sequence of instructions, chosen as the method chooses its    *)
(* branch, by the type of the current token on entry; the instructions are *)
(* run one per step on a stack of frames, one frame per active call.       *)
(***************************************************************************)
\* The token type peek() returns at the end of input, as Python prints it.
None == "None"

\* current_token at the end of input.
NoToken == Token(None, "", 0, 0)

\* class ASTNode; a value of None is the empty string.
ASTNode(type, children, value) ==
    [type |-> type, children |-> children, value |-> value]

\* The None a method returns when it falls off its end.
NoneNode == ASTNode("None", << >>, "")

\* class ParseError
ParseError(message, ln, col) ==
    [message |-> message, line |-> ln, column |-> col]

\* Parser.__init__
Parser(toks) ==
    [tokens |-> toks, position |-> 0,
     current_token |-> IF toks # << >> THEN toks[1] ELSE NoToken,
     errors |-> << >>, error_reported_at_position |-> -1]

\* A faulty error() that records nothing.
Parser_error_unrecorded(p, message) == p

\* A faulty error() that records every call.
Parser_error_always(p, message) ==
    [p EXCEPT !.errors =
                  Append(@, ParseError(message, p.current_token.line,
                                       p.current_token.column)),
              !.error_reported_at_position = p.position]

\* Parser.error
Parser_error(p, message) ==
    IF p.position = p.error_reported_at_position THEN p
    ELSE [p EXCEPT !.errors =
                       Append(@, ParseError(message,
                           IF p.current_token # NoToken
                           THEN p.current_token.line ELSE 0,
                           IF p.current_token # NoToken
                           THEN p.current_token.column ELSE 0)),
                   !.error_reported_at_position = p.position]

\* Parser.peek
Parser_peek(p) ==
    IF p.current_token # NoToken THEN p.current_token.type ELSE None

\* Parser.advance
Parser_advance(p) ==
    [p EXCEPT !.position = @ + 1,
              !.current_token = IF p.position + 1 < Len(p.tokens)
                                THEN p.tokens[p.position + 2] ELSE NoToken]

\* The instructions of a method body.
Instr(op, a, b, sel) == [op |-> op, a |-> a, b |-> b, sel |-> sel]

\* self.match(t)
M(t) == Instr("match", t, "", << >>)

\* self.check_id()
ID == Instr("check_id", "", "", << >>)

\* self.parse_...() of a rule
C(rule) == Instr("call", rule, "", << >>)

\* self.error(message)
E(message) == Instr("error", message, "", << >>)

\* raise StopIteration
R == Instr("raise", "", "", << >>)

\* A test the method makes in the middle of its body.
G(name, message) == Instr("guard", name, message, << >>)

\* ASTNode(type, value=value) written in place as a child.
V(type, value) == Instr("value", type, value, << >>)

\* return ASTNode(type, children=[...]) of the results numbered in sel
N(type, sel) == Instr("return", type, "", sel)

\* return ASTNode(type, value=value)
NV(type, value) == Instr("return", type, value, << >>)

\* return ASTNode(type, value=litvalue.value) of the token just matched
NT(type) == Instr("return_token", type, "", << >>)

\* The method ends without a return statement.
RN == Instr("return_none", "", "", << >>)

\* parse() returns ast, self.errors
RP == Instr("return_parse", "ast", "", << >>)

\* parse() returns None, self.errors
RPN == Instr("return_parse", "None", "", << >>)

\* current.startswith('id')
MaxIds == 3

startswith_id(current) == current \in {"id" \o ToString(n) : n \in 1..MaxIds}

DataTypes == {"int", "float", "char", "string", "bool"}

FIRST_PRIMARY ==
    {"(", "++", "--", "toRise", "toFall", "horizon", "sizeOf", "toInt",
     "toFloat", "toString", "toChar", "toBool", "waft", "int_lit",
     "float_lit", "yuh", "naur", "char_lit", "string_lit", "!"}

\* The test the expression rules make on entry.
starts_expr(current) == current \in FIRST_PRIMARY \/ startswith_id(current)

\* A faulty match that reports the token and does not raise.
Parser_match_soft(p, expected_type) ==
    IF p.current_token = NoToken
    THEN <<E("Expected '" \o expected_type \o "', but reached end of input")>>
    ELSE <<E("Expected '" \o expected_type \o "', got '"
                 \o p.current_token.type \o "'")>>

\* Parser.match at a token that is not the expected one, or at the end.
Parser_match(p, expected_type) ==
    IF p.current_token = NoToken
    THEN <<E("Expected '" \o expected_type \o "', but reached end of input"),
           R>>
    ELSE <<E("Expected '" \o expected_type \o "', got '"
                 \o p.current_token.type \o "'"), R>>

\* Parser.check_id at a token that is not an identifier, or at the end.
check_id(p) ==
    IF p.current_token = NoToken
    THEN <<E("Expected identifier, but reached end of input."), R>>
    ELSE <<E("Expected 'identifier', got '" \o p.current_token.type \o "' "),
           R>>

\* Parser.parse
parse(current) ==
    IF current \in {"universal", "air", "atmosphere"}
    THEN <<C("parse_program"), RP>>
    ELSE <<E("Program must start with 'universal', 'air', or 'atmosphere', got '"
               \o current \o "'"), RPN>>

\* parse: except StopIteration
parse_except(p) == <<RPN>>

\* The test parse_program makes after the body of atmosphere().
parse_program_check(current_tok, current) ==
    IF current_tok # "}"
    THEN <<E("Expected '}' to close atmosphere() function, got '"
               \o current_tok \o "'")>>
    ELSE <<M("}")>>

\* Parser.parse_program: the try block
parse_program(current) ==
    <<C("parse_global_dec"), C("parse_sub_functions"), M("atmosphere"),
      M("("), M(")"), M("{"), C("parse_body"),
      G("parse_program_check", current), N("program", <<1, 2, 3>>)>>

\* parse_program: except StopIteration, which swallows the exception
parse_program_except(p) ==
    IF p.current_token # NoToken /\ p.current_token.type = "}" THEN <<RN>>
    ELSE IF Parser_peek(p) # "}"
    THEN <<E("Expected '}' to close atmosphere() function"), RN>>
    ELSE <<RN>>

\* The test parse_stmt_list makes on the statement it has parsed.
parse_stmt_list_check(statement_node) ==
    IF statement_node = NoneNode THEN <<R>> ELSE << >>

\* parse_statement: except StopIteration, which raises it again
parse_statement_except(p) == <<R>>

\* The test parse_normal makes on the token it has reached.
parse_normal_check(current_tok, current) ==
    IF current_tok # "~"
    THEN IF current_tok = "}"
         THEN <<E("Missing '~' terminator."), R>>
         ELSE IF current_tok # None /\ current_tok \notin {",", "~"}
         THEN <<E("Unexpected '" \o current_tok
                 \o "' in declaration - expected ',' or '~'"),
                R>>
         ELSE <<E("Expected '~' to end declaration, got '" \o current_tok
                 \o "'"),
                R>>
    ELSE << >>

\* The test parse_norm_dec makes on the token it has reached.
parse_norm_dec_check(current_tok, current) ==
    IF current_tok \in {",", "~", None} \/ current_tok \in {"atmosphere",
            "air", "universal"}
    THEN <<E("Expected value or expression after '=', not '" \o current_tok
            \o "'"),
           R>>
    ELSE << >>

\* Parser.parse_global_dec .. Parser.parse_norm_tail
declaration_methods(rule, current) ==
    CASE rule = "parse_global_dec" ->
        (IF current = "universal"
         THEN <<M("universal"), C("parse_declaration"),
                C("parse_global_dec"), N("global_dec", <<1, 2>>)>>
         ELSE IF current \in {"air", "atmosphere"}
         THEN <<N("global_dec_empty", <<>>)>>
         ELSE <<E("[2-3] Expected 'universal', 'air', or 'atmosphere', got '"
                 \o current \o "'"),
                RN>>)
      [] rule = "parse_declaration" ->
        (IF current \in DataTypes
         THEN <<C("parse_normal"), N("declaration", <<1>>)>>
         ELSE IF current = "gust"
         THEN <<C("parse_structure"), N("declaration", <<1>>)>>
         ELSE IF current = "wind"
         THEN <<M("wind"), C("parse_constant"), N("declaration", <<1>>)>>
         ELSE <<E("[4-6] Expected data type (int, float, char, string, bool) or 'gust' or 'wind', got '" \o current \o "'"),
                RN>>)
      [] rule = "parse_normal" ->
        (IF current \in DataTypes
         THEN <<C("parse_data_type"), ID, C("parse_norm_dec"),
                C("parse_norm_tail"), G("parse_normal_check", current),
                M("~"), N("normal", <<1, 2, 3, 4>>)>>
         ELSE <<E("[7] Expected data type (int, float, char, string, bool) got '" \o current \o "'"),
                RN>>)
      [] rule = "parse_norm_dec" ->
        (IF current = "["
         THEN <<C("parse_row_size"), C("parse_array"),
                N("norm_dec", <<1, 2>>)>>
         ELSE IF current = "="
         THEN <<M("="), G("parse_norm_dec_check", current), C("parse_expr"),
                V("operator", "="), N("norm_dec", <<2, 1>>)>>
         ELSE IF current \in {",", "~"}
         THEN <<N("norm_dec_empty", <<>>)>>
         ELSE <<E("[8-10] Expected '[' or '=' or ',' or terminator '~' got '"
                 \o current \o "'"),
                RN>>)
      [] rule = "parse_norm_tail" ->
        (IF current = ","
         THEN <<M(","), ID, C("parse_norm_dec"), C("parse_norm_tail"),
                N("norm_tail", <<1, 2, 3>>)>>
         ELSE IF current = "~"
         THEN <<N("norm_tail_empty", <<>>)>>
         ELSE <<E("[11-12] Expected ',' or terminator '~' got '" \o current
                 \o "'"),
                RN>>)

\* Parser.parse_array .. Parser.parse_2d_tail
array_methods(rule, current) ==
    CASE rule = "parse_array" ->
        (IF current = "="
         THEN <<M("="), M("{"), C("parse_arr_element"), M("}"),
                V("operator", "="), N("array", <<2, 1>>)>>
         ELSE IF current \in {",", "~"}
         THEN <<N("array_empty", <<>>)>>
         ELSE <<E("[13-14] Expected '=' or ',' or terminator '~' got '"
                 \o current \o "'"),
                RN>>)
      [] rule = "parse_arr_element" ->
        (IF current \in {"++", "--", "toRise", "toFall", "horizon", "sizeOf",
                "toInt", "toFloat", "toString", "toChar", "toBool", "waft",
                "int_lit", "float_lit", "yuh", "naur", "char_lit",
                "string_lit", "}"} \/ startswith_id(current)
         THEN <<C("parse_1d_element"), N("arr_element", <<1>>)>>
         ELSE IF current = "{"
         THEN <<C("parse_2d_element"), N("arr_element", <<1>>)>>
         ELSE <<E("[15-16] Expected a value literal or '}'got '" \o current
                 \o "'"),
                RN>>)
      [] rule = "parse_1d_element" ->
        (IF current \in {"++", "--", "toRise", "toFall", "horizon", "sizeOf",
                "toInt", "toFloat", "toString", "toChar", "toBool", "waft",
                "int_lit", "float_lit", "yuh", "naur", "char_lit",
                "string_lit"} \/ startswith_id(current)
         THEN <<C("parse_output"), C("parse_element_tail"),
                N("1d_element", <<1, 2>>)>>
         ELSE IF current = "}"
         THEN <<N("1d_element_node_empty", <<>>)>>
         ELSE <<E("[17-18] Expected a value literal, got '" \o current), RN>>)
      [] rule = "parse_2d_element" ->
        (IF current = "{"
         THEN <<M("{"), C("parse_1d_element"), M("}"), C("parse_2d_tail"),
                N("2d_element", <<1, 2>>)>>
         ELSE <<E("[19] Expected '{', got '" \o current \o "'"), RN>>)
      [] rule = "parse_element_tail" ->
        (IF current = ","
         THEN <<M(","), C("parse_output"), C("parse_element_tail"),
                N("element_tail", <<1, 2>>)>>
         ELSE IF current = "}"
         THEN <<N("element_tail_empty", <<>>)>>
         ELSE <<E("[20-21] Expected ',' or '}' got '" \o current \o "'"), RN>>)
      [] rule = "parse_2d_tail" ->
        (IF current = ","
         THEN <<M(","), M("{"), C("parse_1d_element"), M("}"),
                C("parse_2d_tail"), N("2d_tail", <<1, 2>>)>>
         ELSE IF current = "}"
         THEN <<N("2d_tail_empty", <<>>)>>
         ELSE <<E("[22-23] Expected ',' or '}' got '" \o current \o "'"), RN>>)

\* Parser.parse_structure .. Parser.parse_gust_tail
structure_methods(rule, current) ==
    CASE rule = "parse_structure" ->
        (IF current = "gust"
         THEN <<M("gust"), ID, C("parse_struct_tail"), M("~"),
                N("structure", <<1, 2>>)>>
         ELSE <<E("[24] Expected 'gust', got '" \o current \o "'"), RN>>)
      [] rule = "parse_struct_tail" ->
        (IF current = "{"
         THEN <<M("{"), C("parse_data_type"), ID, M("~"),
                C("parse_gust_tail"), M("}"), N("struct_tail", <<1, 2, 3>>)>>
         ELSE IF startswith_id(current)
         THEN <<ID, C("parse_struct_tail2"), N("struct_tail", <<1, 2>>)>>
         ELSE <<E("[25-26] Expected '{' or identifier, got '" \o current
                 \o "'"),
                RN>>)
      [] rule = "parse_struct_tail2" ->
        (IF current = "="
         THEN <<M("="), M("{"), C("parse_1d_element"), M("}"),
                V("operator", "="), N("struct_tail2", <<2, 1>>)>>
         ELSE IF current = "~"
         THEN <<N("struct_tail2_empty", <<>>)>>
         ELSE <<E("[27-28] Expected '=' or '~', got '" \o current \o "'"),
                RN>>)
      [] rule = "parse_gust_tail" ->
        (IF current \in DataTypes
         THEN <<C("parse_data_type"), ID, M("~"), C("parse_gust_tail"),
                N("gust_tail", <<1, 2, 3>>)>>
         ELSE IF current = "}"
         THEN <<N("gust_tail_empty", <<>>)>>
         ELSE <<E("[29-30] Expected data type or '}', got '" \o current
                 \o "'"),
                RN>>)

\* Parser.parse_constant .. Parser.parse_struct_const
constant_methods(rule, current) ==
    CASE rule = "parse_constant" ->
        (IF current \in DataTypes
         THEN <<C("parse_data_type"), ID, C("parse_const_dec"), M("~"),
                N("constant", <<1, 2, 3>>)>>
         ELSE IF current = "gust"
         THEN <<C("parse_struct_const"), N("constant", <<1>>)>>
         ELSE <<E("[31-32] Expected data type or gust, got '" \o current
                 \o "'"),
                RN>>)
      [] rule = "parse_const_dec" ->
        (IF current = "="
         THEN <<M("="), C("parse_expr"), C("parse_const_tail"),
                V("operator", "="), N("const_dec", <<3, 1, 2>>)>>
         ELSE IF current = "["
         THEN <<C("parse_row_size"), M("="), M("{"), C("parse_const_arr"),
                M("}"), C("parse_const_tail"), V("operator", "="),
                N("const_dec", <<1, 4, 2, 3>>)>>
         ELSE <<E("[33-34] Expected '=' or '[', got '" \o current \o "'"),
                RN>>)
      [] rule = "parse_const_tail" ->
        (IF current = ","
         THEN <<M(","), ID, C("parse_const_dec"), N("const_tail", <<1, 2>>)>>
         ELSE IF current = "~"
         THEN <<N("const_tail_empty", <<>>)>>
         ELSE <<E("[35-36] Expected ',' or '~', got '" \o current \o "' "),
                RN>>)
      [] rule = "parse_const_arr" ->
        (IF current \in {"int_lit", "float_lit", "char_lit", "string_lit",
                "yuh", "naur"}
         THEN <<C("parse_const_1d"), N("const_arr", <<1>>)>>
         ELSE IF current = "{"
         THEN <<C("parse_const_2d"), N("const_arr", <<1>>)>>
         ELSE <<E("[37-38] Expected value literal or '{', got '" \o current
                 \o "'"),
                RN>>)
      [] rule = "parse_const_1d" ->
        (IF current \in {"++", "--", "toRise", "toFall", "horizon", "sizeOf",
                "toInt", "toFloat", "toString", "toChar", "toBool", "waft",
                "int_lit", "float_lit", "yuh", "naur", "char_lit",
                "string_lit"} \/ startswith_id(current)
         THEN <<C("parse_output"), C("parse_element_tail"),
                N("const_1d", <<1, 2>>)>>
         ELSE <<E("[39] Expected value literal, got '" \o current \o "'"),
                RN>>)
      [] rule = "parse_const_2d" ->
        (IF current = "{"
         THEN <<M("{"), C("parse_const_1d"), M("}"),
                C("parse_const_2d_tail"), N("const_2d", <<1, 2>>)>>
         ELSE <<E("[40] Expected '{', got '" \o current \o "'"), RN>>)
      [] rule = "parse_const_2d_tail" ->
        (IF current = ","
         THEN <<M(","), M("{"), C("parse_const_1d"), M("}"),
                C("parse_const_2d_tail"), N("const_2d_tail", <<1, 2>>)>>
         ELSE IF current = "}"
         THEN <<N("const_2d_tail_empty", <<>>)>>
         ELSE <<E("[41-42] Expected ',' or '{', got '" \o current \o "'"),
                RN>>)
      [] rule = "parse_struct_const" ->
        (IF current = "gust"
         THEN <<M("gust"), ID, ID, M("="), M("{"), C("parse_const_1d"),
                M("}"), M("~"), V("operator", "="),
                N("struct_const", <<1, 2, 4, 3>>)>>
         ELSE <<E("[43] Expected 'gust', got '" \o current \o "'"), RN>>)

\* Parser.parse_dimension .. Parser.parse_data_type
dimension_methods(rule, current) ==
    CASE rule = "parse_dimension" ->
        (IF current = "["
         THEN <<C("parse_row_size"), N("dimension", <<1>>)>>
         ELSE IF current \in {"~", "++", "--", "=", "+=", "-=", "*=", "/=",
                 "%=", "+", "-", "*", "/", "%", "]", ">", "<", ">=", "<=",
                 "==", "!=", ",", ")", "||", "&&", "}"}
         THEN <<N("dimension_empty", <<>>)>>
         ELSE <<E("[44-45] Expected '~', '++', '--', operator, ')', '}'got '"
                 \o current \o "'"),
                RN>>)
      [] rule = "parse_row_size" ->
        (IF current = "["
         THEN <<M("["), C("parse_size"), M("]"), C("parse_col_size"),
                N("row_size", <<1, 2>>)>>
         ELSE <<E("[46] Expected '[', got '" \o current \o "'"), RN>>)
      [] rule = "parse_col_size" ->
        (IF current = "["
         THEN <<M("["), C("parse_pdim_size"), M("]"), N("col_size", <<1>>)>>
         ELSE IF current \in {"~", "++", "--", "=", "+=", "-=", "*=", "/=",
                 "%=", "+", "-", "*", "/", "%", "]", ">", "<", ">=", "<=",
                 "==", "!=", ",", ")", "||", "&&", "}"}
         THEN <<N("col_size_empty", <<>>)>>
         ELSE <<E("[47-48] Expected '[', '}', identifier, '~', operator, statement, or 'gasp', got '" \o current \o "'"),
                RN>>)
      [] rule = "parse_size" ->
        (IF starts_expr(current)
         THEN <<C("parse_arith_expr"), N("size", <<1>>)>>
         ELSE IF current = "]"
         THEN <<N("size_empty", <<>>)>>
         ELSE <<E("[49-50] Expected '(', identifier, value literal, or predefined function, got '" \o current \o "'"),
                RN>>)
      [] rule = "parse_data_type" ->
        (IF current = "int"
         THEN <<M("int"), NV("data_type", "int")>>
         ELSE IF current = "float"
         THEN <<M("float"), NV("data_type", "float")>>
         ELSE IF current = "char"
         THEN <<M("char"), NV("data_type", "char")>>
         ELSE IF current = "string"
         THEN <<M("string"), NV("data_type", "string")>>
         ELSE IF current = "bool"
         THEN <<M("bool"), NV("data_type", "bool")>>
         ELSE <<E("[51-55] Expected data type (int, float, char, string, bool), got '" \o current \o "'"),
                RN>>)

\* Parser.parse_sub_functions .. Parser.parse_params_tail
function_methods(rule, current) ==
    CASE rule = "parse_sub_functions" ->
        (IF current = "air"
         THEN <<C("parse_air_func"), C("parse_sub_functions"),
                N("sub_functions", <<1, 2>>)>>
         ELSE IF current = "atmosphere"
         THEN <<N("sub_functions_empty", <<>>)>>
         ELSE <<E("[56-57] Expected 'air' or 'atmosphere', got '" \o current
                 \o "'"),
                RN>>)
      [] rule = "parse_air_func" ->
        (IF current = "air"
         THEN <<M("air"), C("parse_return_type"), ID, M("("),
                C("parse_params"), M(")"), M("{"), C("parse_body"),
                C("parse_return_stat"), M("}"),
                N("air_func", <<1, 2, 3, 4, 5>>)>>
         ELSE <<E("[58] Expected 'air', got '" \o current \o "'"), RN>>)
      [] rule = "parse_return_type" ->
        (IF current \in DataTypes
         THEN <<C("parse_data_type"), N("return_type", <<1>>)>>
         ELSE IF current = "vacuum"
         THEN <<M("vacuum"), NV("return_type", "vacuum")>>
         ELSE <<E("[59-60] Expected data type or 'vacuum', got '" \o current
                 \o "'"),
                RN>>)
      [] rule = "parse_params" ->
        (IF current \in DataTypes
         THEN <<C("parse_data_type"), ID, C("parse_params_dim"),
                C("parse_params_tail"), N("params", <<1, 2, 3, 4>>)>>
         ELSE IF current = ")"
         THEN <<N("params_empty", <<>>)>>
         ELSE <<E("[61-62] Expected data type or ')', got '" \o current
                 \o "'"),
                RN>>)
      [] rule = "parse_params_dim" ->
        (IF current = "["
         THEN <<M("["), C("parse_pdim_tail"), N("params_dim", <<1>>)>>
         ELSE IF current \in {",", ")"}
         THEN <<N("params_dim_node", <<>>)>>
         ELSE <<E("[63-64] Expected '[' or ',' or ')', got '" \o current
                 \o "'"),
                RN>>)
      [] rule = "parse_pdim_tail" ->
        (IF current = "]"
         THEN <<M("]"), NV("params_pdim_tail", "]")>>
         ELSE IF starts_expr(current)
         THEN <<C("parse_pdim_size"), M("]"), M("["), C("parse_pdim_size"),
                M("]"), N("params_pdim_tail", <<1, 2>>)>>
         ELSE <<E("[65-66] Expected '(', identifier, value literal, or predefined function, got '" \o current \o "'"),
                RN>>)
      [] rule = "parse_pdim_size" ->
        (IF starts_expr(current)
         THEN <<C("parse_arith_expr"), N("pdim_size", <<1>>)>>
         ELSE <<E("[67] Expected '(', identifier, value literal, or predefined function, got '" \o current \o "'"),
                RN>>)
      [] rule = "parse_params_tail" ->
        (IF current = ","
         THEN <<M(","), C("parse_data_type"), ID,
                V("method", "parse_params_dim"),
                V("method", "parse_params_tail"),
                N("params_tail", <<1, 2, 3, 4>>)>>
         ELSE IF current = ")"
         THEN <<N("params_tail_empty", <<>>)>>
         ELSE <<E("[68-69] Expected ',' or ')', got '" \o current \o "'"),
                RN>>)

\* Parser.parse_body .. Parser.parse_statement
statement_methods(rule, current) ==
    CASE rule = "parse_body" ->
        (IF current \in {"int", "float", "char", "string", "bool", "gust",
                "wind", "inhale", "exhale", "++", "--", "if", "stream",
                "cycle", "echo", "do", "}", "gasp"} \/ startswith_id(current)
         THEN <<C("parse_stmt_list"), N("body", <<1>>)>>
         ELSE <<E("[70] Invalid body start. Expected statements, got '"
                 \o current \o "'"),
                RN>>)
      [] rule = "parse_stmt_list" ->
        (IF current \in {"int", "float", "char", "string", "bool", "gust",
                "wind", "inhale", "exhale", "++", "--", "if", "stream",
                "cycle", "echo", "do"} \/ startswith_id(current)
         THEN <<C("parse_statement"), G("parse_stmt_list_check", current),
                C("parse_stmt_list"), N("stmt_list", <<1, 2>>)>>
         ELSE IF current \in {"}", "gasp", "resist"}
         THEN <<N("stmt_list_empty", <<>>)>>
         ELSE IF current = None
         THEN <<R>>
         ELSE <<E("[71-72] Invalid statements, got '" \o current \o "'"), RN>>)
      [] rule = "parse_statement" ->
        (IF current \in {"int", "float", "char", "string", "bool", "gust",
                "wind"}
         THEN <<C("parse_declaration"), N("statement", <<1>>)>>
         ELSE IF current \in {"inhale", "exhale"}
         THEN <<C("parse_input_output"), N("statement", <<1>>)>>
         ELSE IF current \in {"++", "--"} \/ startswith_id(current)
         THEN <<C("parse_identifier_stat"), N("statement", <<1>>)>>
         ELSE IF current \in {"if", "stream"}
         THEN <<C("parse_conditioner"), N("statement", <<1>>)>>
         ELSE IF current \in {"cycle", "echo", "do"}
         THEN <<C("parse_iteration"), N("statement", <<1>>)>>
         ELSE <<E("[73-77] Invalid statements, got '" \o current \o "'"), R>>)

\* Parser.parse_identifier_stat .. Parser.parse_unary_op2
identifier_methods(rule, current) ==
    CASE rule = "parse_identifier_stat" ->
        (IF current \in {"++", "--"}
         THEN <<C("parse_unary_op"), ID, C("parse_id_access"), M("~"),
                N("identifier_stat", <<1, 2, 3>>)>>
         ELSE IF startswith_id(current)
         THEN <<ID, C("parse_id_stat_body"), M("~"),
                N("identifier_stat", <<1, 2>>)>>
         ELSE <<E("[78-79] Expected '++' or '--' or identifier, got '"
                 \o current \o "'"),
                RN>>)
      [] rule = "parse_id_stat_body" ->
        (IF current = "("
         THEN <<M("("), C("parse_param_opts"), M(")"),
                N("id_stat_body", <<1>>)>>
         ELSE IF current \in {"[", ".", "++", "--", "=", "+=", "-=", "*=",
                 "/=", "%="}
         THEN <<C("parse_id_access"), C("parse_id_stat_tail"),
                N("id_stat_body", <<1, 2>>)>>
         ELSE <<E("[80-81] Expected [, .,  ++, --,  =, +=, -=, *=, /=, %=, got '" \o current \o "'"),
                RN>>)
      [] rule = "parse_id_stat_tail" ->
        (IF current \in {"++", "--"}
         THEN <<C("parse_unary_op"), N("id_stat_tail", <<1>>)>>
         ELSE IF current \in {"=", "+=", "-=", "*=", "/=", "%="}
         THEN <<C("parse_assignment"), N("identifier_stat", <<1>>)>>
         ELSE <<E("[82-83] Expected ++, --,  =, +=, -=, *=, /=, %=, got '"
                 \o current \o "'"),
                RN>>)
      [] rule = "parse_identifier" ->
        (IF current \in {"++", "--"}
         THEN <<C("parse_unary_op"), ID, C("parse_id_access"),
                N("identifier", <<1, 3>>)>>
         ELSE IF startswith_id(current)
         THEN <<ID, C("parse_id_tail"), N("identifier", <<1, 2>>)>>
         ELSE <<E("[84-85] Expected ++, --, or identifier, got '" \o current
                 \o "'"),
                RN>>)
      [] rule = "parse_id_tail" ->
        (IF current = "("
         THEN <<M("("), C("parse_param_opts"), M(")"), N("id_tail", <<1>>)>>
         ELSE IF current \in {"[", ".", "~", "++", "--", "=", "+=", "-=",
                 "*=", "/=", "%=", "+", "-", "*", "/", "%", "]", ">", "<",
                 ">=", "<=", "==", "!=", ",", ")", "||", "&&", "}"}
         THEN <<C("parse_id_access"), C("parse_unary_op2"),
                N("id_tail", <<1, 2>>)>>
         ELSE <<E("[86-87] Expected (, [, ., ~, ++, --, +, -, *, /, %, ], >, <, >=, <=, ==, !=, ,, ), ||, &&, } got '" \o current \o "'"),
                RN>>)
      [] rule = "parse_id_access" ->
        (IF current \in {"[", "~", "++", "--", "=", "+=", "-=", "*=", "/=",
                "%=", "+", "-", "*", "/", "%", "]", ">", "<", ">=", "<=",
                "==", "!=", ",", ")", "||", "&&", "}"}
         THEN <<C("parse_dimension"), N("id_access", <<1>>)>>
         ELSE IF current = "."
         THEN <<M("."), ID, V("str", "."), N("id_access", <<2, 1>>)>>
         ELSE <<E("[88-91] Expected (, [, ., ~, ++, --, +, -, *, /, %, ], >, <, >=, <=, ==, !=, ,, ), ||, &&, }  got '" \o current \o "'"),
                RN>>)
      [] rule = "parse_unary_op" ->
        (IF current = "++"
         THEN <<M("++"), NV("unary_op", "++")>>
         ELSE IF current = "--"
         THEN <<M("--"), NV("unary_op", "--")>>
         ELSE <<E("[90-91] Expected '++' or '--', got '" \o current \o "'"),
                RN>>)
      [] rule = "parse_unary_op2" ->
        (IF current \in {"++", "--"}
         THEN <<C("parse_unary_op"), N("unary_op2", <<1>>)>>
         ELSE IF current \in {"+", "-", "*", "/", "%", "]", ">", "<", ">=",
                 "<=", "==", "!=", ",", "~", ")", "||", "&&", "}"}
         THEN <<N("unary_op2_empty", <<>>)>>
         ELSE <<E("[92-93] Expected ++, --, +, -, *, /, %, ], >, <, >=, <=, ==, !=, ,, ~, ), ||, &&, }got '" \o current \o "'"),
                RN>>)

\* Parser.parse_input_output .. Parser.parse_output_tail
output_methods(rule, current) ==
    CASE rule = "parse_input_output" ->
        (IF current = "inhale"
         THEN <<M("inhale"), M("("), ID, C("parse_id_access"), M(")"),
                M("~"), V("str", "inhale"), N("input_output", <<3, 1, 2>>)>>
         ELSE IF current = "exhale"
         THEN <<M("exhale"), M("("), C("parse_output"), M(")"), M("~"),
                V("str", "exhale"), N("input_output", <<2, 1>>)>>
         ELSE <<E("[94-95] Expected 'inhale' or 'exhale', got '" \o current
                 \o "'"),
                RN>>)
      [] rule = "parse_output" ->
        (IF current \in {"++", "--"} \/ startswith_id(current)
         THEN <<C("parse_identifier"), N("output", <<1>>)>>
         ELSE IF current \in {"toRise", "toFall", "horizon", "sizeOf",
                 "toInt", "toFloat", "toString", "toChar", "toBool", "waft"}
         THEN <<C("parse_function_call"), N("output", <<1>>)>>
         ELSE IF current \in {"int_lit", "float_lit", "yuh", "naur"}
         THEN <<C("parse_value"), N("output", <<1>>)>>
         ELSE IF current \in {"char_lit", "string_lit"}
         THEN <<C("parse_output_concat"), C("parse_output_tail"),
                N("output", <<1, 2>>)>>
         ELSE <<E("[98-100] Expected '++, --' or function call or character/string literal, got '" \o current \o "'"),
                RN>>)
      [] rule = "parse_value" ->
        (IF current = "int_lit"
         THEN <<M("int_lit"), NT("value")>>
         ELSE IF current = "float_lit"
         THEN <<M("float_lit"), NT("value")>>
         ELSE IF current = "yuh"
         THEN <<M("yuh"), NT("value")>>
         ELSE IF current = "naur"
         THEN <<M("naur"), NT("value")>>
         ELSE <<E("[100-103] Expected value literal, got '" \o current \o "'"),
                RN>>)
      [] rule = "parse_output_concat" ->
        (IF current = "char_lit"
         THEN <<M("char_lit"), NT("output_content")>>
         ELSE IF current = "string_lit"
         THEN <<M("string_lit"), NT("output_content")>>
         ELSE <<E("[104-105] Expected character/string literal, got '"
                 \o current \o "'"),
                RN>>)
      [] rule = "parse_output_tail" ->
        (IF current = "&"
         THEN <<M("&"), C("parse_output_concat"), C("parse_output_tail"),
                N("output_tail", <<1, 2>>)>>
         ELSE IF current \in {"+", "-", "*", "/", "%", "]", ">", "<", ">=",
                 "<=", "==", "!=", ",", "~", ")", "||", "&&", "}"}
         THEN <<N("output_tail_empty", <<>>)>>
         ELSE <<E("[106-107] Expected '&' or operators or terminator '~', got '" \o current \o "'"),
                RN>>)

\* Parser.parse_assi_op .. Parser.parse_assignment
assignment_methods(rule, current) ==
    CASE rule = "parse_assi_op" ->
        (IF current = "="
         THEN <<M("="), V("operator", "="), N("assi_op", <<1>>)>>
         ELSE IF current = "+="
         THEN <<M("+="), V("operator", "+="), N("assi_op", <<1>>)>>
         ELSE IF current = "-="
         THEN <<M("-="), V("operator", "-="), N("assi_op", <<1>>)>>
         ELSE IF current = "*="
         THEN <<M("*="), V("operator", "*="), N("assi_op", <<1>>)>>
         ELSE IF current = "/="
         THEN <<M("/="), V("operator", "/="), N("assi_op", <<1>>)>>
         ELSE IF current = "%="
         THEN <<M("%="), V("operator", "%="), N("assi_op", <<1>>)>>
         ELSE <<E("[108-113] Expected assignment operator, got '" \o current
                 \o "'"),
                RN>>)
      [] rule = "parse_assignment" ->
        (IF current \in {"=", "+=", "-=", "*=", "/=", "%="}
         THEN <<C("parse_assi_op"), C("parse_expr"),
                N("assignment", <<1, 2>>)>>
         ELSE <<E("[114] Expected assignment operator, got '" \o current
                 \o "'"),
                RN>>)

\* The test parse_or_tail makes on the token it has reached.
parse_or_tail_check(current_tok, current) ==
    IF current_tok \notin FIRST_PRIMARY /\ ~startswith_id(current_tok)
    THEN <<E("[117-118] Expected relational expression after or boolean '||' operator"),
           R>>
    ELSE << >>

\* The test parse_and_tail makes on the token it has reached.
parse_and_tail_check(current_tok, current) ==
    IF current_tok \notin FIRST_PRIMARY /\ ~startswith_id(current_tok)
    THEN <<E("[120-121] Expected relational expression or boolean after '&&' operator"),
           R>>
    ELSE << >>

\* The test parse_rela_tail makes on the token it has reached.
parse_rela_tail_check(current_tok, current) ==
    IF current_tok \notin FIRST_PRIMARY /\ ~startswith_id(current_tok)
    THEN <<E("[122-123] Expected expression after '" \o current
            \o "' operator"),
           R>>
    ELSE << >>

\* The test parse_arith_tail makes on the token it has reached.
parse_arith_tail_check(current_tok, current) ==
    IF current_tok \notin FIRST_PRIMARY /\ ~startswith_id(current_tok)
    THEN <<E("[137-138] Expected expression after '" \o current
            \o "' operator"),
           R>>
    ELSE << >>

\* The test parse_term_tail makes on the token it has reached.
parse_term_tail_check(current_tok, current) ==
    IF current_tok \notin FIRST_PRIMARY /\ ~startswith_id(current_tok)
    THEN <<E("[140-141] Expected expression after '" \o current
            \o "' operator"),
           R>>
    ELSE << >>

\* Parser.parse_expr .. Parser.parse_primary
expression_methods(rule, current) ==
    CASE rule = "parse_expr" ->
        (IF starts_expr(current)
         THEN <<C("parse_logic_expr"), N("expr", <<1>>)>>
         ELSE <<E("[115] Expected '(', identifier, value literal, or function call, got '" \o current \o "'"),
                RN>>)
      [] rule = "parse_logic_expr" ->
        (IF starts_expr(current)
         THEN <<C("parse_and_expr"), C("parse_or_tail"),
                N("logic_expr", <<1, 2>>)>>
         ELSE <<E("[116] Expected '(', identifier, value literal, or function call, got '" \o current \o "'"),
                RN>>)
      [] rule = "parse_or_tail" ->
        (IF current = "||"
         THEN <<M("||"), G("parse_or_tail_check", current),
                C("parse_and_expr"), C("parse_or_tail"),
                N("or_tail", <<1, 2>>)>>
         ELSE IF current \in {"~", ",", ")"}
         THEN <<N("or_tail_empty", <<>>)>>
         ELSE <<E("[117-118] Expected '||' or '~' or ',' , got '" \o current
                 \o "'"),
                RN>>)
      [] rule = "parse_and_expr" ->
        (IF starts_expr(current)
         THEN <<C("parse_rela_expr"), C("parse_and_tail"),
                N("and_expr", <<1, 2>>)>>
         ELSE <<E("[119] Expected '(', identifier, value literal, or function call, got '" \o current \o "'"),
                RN>>)
      [] rule = "parse_and_tail" ->
        (IF current = "&&"
         THEN <<M("&&"), G("parse_and_tail_check", current),
                C("parse_rela_expr"), C("parse_and_tail"),
                N("and_tail", <<1, 2>>)>>
         ELSE IF current \in {"||", "~", ",", ")"}
         THEN <<N("and_tail_empty", <<>>)>>
         ELSE <<E("[120-121] Expected '&&' or '||' or '~' or ',' , got '"
                 \o current \o "'"),
                RN>>)
      [] rule = "parse_rela_expr" ->
        (IF starts_expr(current)
         THEN <<C("parse_arith_expr"), C("parse_rela_tail"),
                N("rela_expr", <<1, 2>>)>>
         ELSE <<E("[122] Expected '(', identifier, value literal, or function call, got '" \o current \o "'"),
                RN>>)
      [] rule = "parse_rela_tail" ->
        (IF current \in {">", "<", ">=", "<=", "==", "!="}
         THEN <<C("parse_rela_sym"), G("parse_rela_tail_check", current),
                C("parse_arith_expr"), N("rela_tail", <<1, 2>>)>>
         ELSE IF current \in {"&&", "||", "~", ",", ")"}
         THEN <<N("rela_tail_empty", <<>>)>>
         ELSE <<E("[122-123] Expected relational symbols (> < >= <= == !=) or '&&' '||' '~' ',' ')', got '" \o current \o "'"),
                RN>>)
      [] rule = "parse_rela_sym" ->
        (IF current = ">"
         THEN <<M(">"), V("operator", ">"), N("rela_sym", <<1>>)>>
         ELSE IF current = "<"
         THEN <<M("<"), V("operator", "<"), N("rela_sym", <<1>>)>>
         ELSE IF current = ">="
         THEN <<M(">="), V("operator", ">="), N("rela_sym", <<1>>)>>
         ELSE IF current = "<="
         THEN <<M("<="), V("operator", "<="), N("rela_sym", <<1>>)>>
         ELSE IF current = "=="
         THEN <<M("=="), V("operator", "=="), N("rela_sym", <<1>>)>>
         ELSE IF current = "!="
         THEN <<M("!="), V("operator", "!="), N("rela_sym", <<1>>)>>
         ELSE <<E("[125-130] Expected relational symbols (> < >= <= == !=), got '" \o current \o "'"),
                RN>>)
      [] rule = "parse_arith_op1" ->
        (IF current = "+"
         THEN <<M("+"), V("operator", "+"), N("arith_op1", <<1>>)>>
         ELSE IF current = "-"
         THEN <<M("-"), V("operator", "-"), N("arith_op1", <<1>>)>>
         ELSE <<E("[131-132] Expected '+' or '-', got '" \o current \o "'"),
                RN>>)
      [] rule = "parse_arith_op2" ->
        (IF current = "*"
         THEN <<M("*"), V("operator", "*"), N("arith_op2", <<1>>)>>
         ELSE IF current = "/"
         THEN <<M("/"), V("operator", "/"), N("arith_op2", <<1>>)>>
         ELSE IF current = "%"
         THEN <<M("%"), V("operator", "%"), N("arith_op2", <<1>>)>>
         ELSE <<E("[133-135] Expected '*' or '/' or '%', got '" \o current
                 \o "'"),
                RN>>)
      [] rule = "parse_arith_expr" ->
        (IF starts_expr(current)
         THEN <<C("parse_term"), C("parse_arith_tail"),
                N("arith_expr", <<1, 2>>)>>
         ELSE <<E("[136] Expected '(', identifier, value literal, or function call, got '" \o current \o "'"),
                RN>>)
      [] rule = "parse_arith_tail" ->
        (IF current \in {"+", "-"}
         THEN <<C("parse_arith_op1"), G("parse_arith_tail_check", current),
                C("parse_term"), C("parse_arith_tail"),
                N("arith_tail", <<1, 2, 3>>)>>
         ELSE IF current \in {"~", ",", "]", ")", "||", "&&", ">", "<", ">=",
                 "<=", "==", "!="}
         THEN <<N("arith_tail_empty", <<>>)>>
         ELSE <<E("[137-138] Expected operators or '~', got '" \o current
                 \o "'"),
                RN>>)
      [] rule = "parse_term" ->
        (IF starts_expr(current)
         THEN <<C("parse_factor"), C("parse_term_tail"), N("term", <<1, 2>>)>>
         ELSE <<E("[139] Expected '(', identifier, value literal, or function call, got '" \o current \o "'"),
                R>>)
      [] rule = "parse_term_tail" ->
        (IF current \in {"*", "/", "%"}
         THEN <<C("parse_arith_op2"), G("parse_term_tail_check", current),
                C("parse_factor"), C("parse_term_tail"),
                N("term_tail", <<1, 2, 3>>)>>
         ELSE IF current \in {"~", "]", ",", ")", "||", "&&", ">", "<", ">=",
                 "<=", "==", "!=", "+", "-"}
         THEN <<N("term_tail_empty", <<>>)>>
         ELSE <<E("[140-141] Expected terminator '~' or continuation of expression, got '" \o current \o "'."),
                R>>)
      [] rule = "parse_factor" ->
        (IF starts_expr(current)
         THEN <<C("parse_primary"), N("factor", <<1>>)>>
         ELSE <<E("[142] Expected '(', identifier, value literal, or function call, got '" \o current \o "'"),
                R>>)
      [] rule = "parse_primary" ->
        (IF current = "("
         THEN <<M("("), C("parse_expr"), M(")"), N("primary", <<1>>)>>
         ELSE IF current \in {"++", "--", "toRise", "toFall", "horizon",
                 "sizeOf", "toInt", "toFloat", "toString", "toChar", "toBool",
                 "waft", "int_lit", "float_lit", "yuh", "naur", "char_lit",
                 "string_lit"} \/ startswith_id(current)
         THEN <<C("parse_output"), N("primary", <<1>>)>>
         ELSE IF current = "!"
         THEN <<M("!"), M("("), C("parse_logic_expr"), M(")"),
                N("primary", <<1>>)>>
         ELSE IF current \in {"+", "-", "*", "/", "%", "=", "+=", "-=", "*=",
                 "/=", "%=", ">", "<", ">=", "<=", "==", "!="}
              THEN <<E("Unexpected operator '" \o current
                      \o "' - expected value or identifier"),
                     R>>
              ELSE IF current \in {"~", "}", ",", ")"}
              THEN <<E("[143-145] Incomplete expression - unexpected '"
                      \o current \o "'"),
                     R>>
              ELSE <<E("[143-145] Expected value, identifier, or '(' in expression, got '" \o current \o "'"),
                     R>>)

\* Parser.parse_stmt_ctrl .. Parser.parse_for_init
control_methods(rule, current) ==
    CASE rule = "parse_stmt_ctrl" ->
        (IF current \in {"int", "float", "char", "string", "bool", "gust",
                "wind", "inhale", "exhale", "++", "--", "if", "stream",
                "cycle", "echo", "do"} \/ startswith_id(current)
         THEN <<C("parse_statement"), C("parse_stmt_ctrl"),
                N("stmt_ctrl", <<1, 2>>)>>
         ELSE IF current \in {"resist", "flow"}
         THEN <<C("parse_ctrl_flow"), C("parse_stmt_ctrl"),
                N("stmt_ctrl", <<1, 2>>)>>
         ELSE IF current = "}"
         THEN <<N("stmt_ctrl_empty", <<>>)>>
         ELSE <<E("[146-148] Expected statement(s), got '" \o current \o "'"),
                RN>>)
      [] rule = "parse_ctrl_flow" ->
        (IF current = "resist"
         THEN <<M("resist"), M("~"), NV("ctrl_flow", "resist")>>
         ELSE IF current = "flow"
         THEN <<M("flow"), M("~"), NV("ctrl_flow", "flow")>>
         ELSE <<E("[149-150] Expected 'resist' or 'flow', got '" \o current
                 \o "'"),
                RN>>)
      [] rule = "parse_conditioner" ->
        (IF current = "if"
         THEN <<C("parse_if_stat"), N("conditioner", <<1>>)>>
         ELSE IF current = "stream"
         THEN <<C("parse_switch_stat"), N("conditioner", <<1>>)>>
         ELSE <<E("[151-152] Expected 'if' or 'stream', got '" \o current
                 \o "'"),
                RN>>)
      [] rule = "parse_if_stat" ->
        (IF current = "if"
         THEN <<M("if"), M("("), C("parse_cond_stat"), M(")"), M("{"),
                C("parse_stmt_ctrl"), M("}"), C("parse_if_tail"),
                N("if_stat", <<1, 2, 3>>)>>
         ELSE <<E("[153] Expected 'if', got '" \o current \o "'"), RN>>)
      [] rule = "parse_if_tail" ->
        (IF current = "elseif"
         THEN <<M("elseif"), M("("), C("parse_cond_stat"), M(")"), M("{"),
                C("parse_stmt_ctrl"), M("}"), C("parse_if_tail"),
                N("if_tail", <<1, 2, 3>>)>>
         ELSE IF current = "else"
         THEN <<M("else"), M("{"), C("parse_stmt_ctrl"), M("}"),
                N("if_tail", <<1>>)>>
         ELSE IF current \in {"}", "int", "float", "char", "string", "bool",
                 "gust", "wind", "inhale", "exhale", "++", "--", "resist",
                 "flow", "if", "stream", "cycle", "echo", "do",
                 "gasp"} \/ startswith_id(current)
         THEN <<N("if_tail_empty", <<>>)>>
         ELSE <<E("[154-156] Expected 'elseif' or 'else' or other statements, got '" \o current \o "'"),
                RN>>)
      [] rule = "parse_cond_stat" ->
        (IF starts_expr(current)
         THEN <<C("parse_expr"), N("cond_stat", <<1>>)>>
         ELSE <<E("[157] Expected '(', identifier, value literal, or function call, got '" \o current \o "'"),
                RN>>)
      [] rule = "parse_switch_stat" ->
        (IF current = "stream"
         THEN <<M("stream"), M("("), ID, C("parse_id_access"), M(")"),
                M("{"), C("parse_switch_cases"), C("parse_switch_def"),
                M("}"), N("switch_stat", <<1, 2, 3, 4>>)>>
         ELSE <<E("[158] Expected 'stream', got '" \o current \o "'"), RN>>)
      [] rule = "parse_switch_cases" ->
        (IF current = "case"
         THEN <<M("case"), C("parse_switch_opts"), M(":"),
                C("parse_stmt_list"), M("resist"), M("~"),
                C("parse_switch_cases"), N("switch_cases", <<1, 2, 3>>)>>
         ELSE IF current \in {"}", "diffuse"}
         THEN <<N("switch_cases_empty", <<>>)>>
         ELSE <<E("[159-160] Expected 'case' or 'diffuse' or '}', got '"
                 \o current \o "'"),
                RN>>)
      [] rule = "parse_switch_opts" ->
        (IF current = "int_lit"
         THEN <<M("int_lit"), NT("switch_opts")>>
         ELSE IF current = "char_lit"
         THEN <<M("char_lit"), NT("switch_opts")>>
         ELSE <<E("[161-162] Expected integer type literal, got '" \o current
                 \o "'"),
                RN>>)
      [] rule = "parse_switch_def" ->
        (IF current = "diffuse"
         THEN <<M("diffuse"), M(":"), C("parse_stmt_list"), M("resist"),
                M("~"), N("switch_def", <<1>>)>>
         ELSE IF current = "}"
         THEN <<N("switch_def_empty", <<>>)>>
         ELSE <<E("[163-165] Expected 'diffuse' or '}', got '" \o current
                 \o "'"),
                RN>>)
      [] rule = "parse_iteration" ->
        (IF current = "cycle"
         THEN <<C("parse_while_loop"), N("iteration", <<1>>)>>
         ELSE IF current = "echo"
         THEN <<C("parse_for_loop"), N("iteration", <<1>>)>>
         ELSE IF current = "do"
         THEN <<C("parse_dowhile_loop"), N("iteration", <<1>>)>>
         ELSE <<E("[165-167] Expected 'cycle' or 'echo' or 'do', got '"
                 \o current \o "'"),
                RN>>)
      [] rule = "parse_while_loop" ->
        (IF current = "cycle"
         THEN <<M("cycle"), M("("), C("parse_cond_stat"), M(")"), M("{"),
                C("parse_stmt_ctrl"), M("}"), N("while_loop", <<1, 2>>)>>
         ELSE <<E("[168] Expected 'cycle', got '" \o current \o "'"), RN>>)
      [] rule = "parse_for_loop" ->
        (IF current = "echo"
         THEN <<M("echo"), M("("), C("parse_for_init"), C("parse_cond_stat"),
                M("~"), C("parse_identifier_stat"), M(")"), M("{"),
                C("parse_stmt_ctrl"), M("}"),
                N("while_loop", <<1, 2, 3, 4>>)>>
         ELSE <<E("[169] Expected 'echo', got '" \o current \o "'"), RN>>)
      [] rule = "parse_dowhile_loop" ->
        (IF current = "do"
         THEN <<M("do"), M("{"), C("parse_stmt_ctrl"), M("}"), M("cycle"),
                M("("), C("parse_cond_stat"), M(")"), M("~"),
                N("while_loop", <<1, 2>>)>>
         ELSE <<E("[170] Expected 'do', got '" \o current \o "'"), RN>>)
      [] rule = "parse_for_init" ->
        (IF current \in DataTypes
         THEN <<C("parse_normal"), N("for_init", <<1>>)>>
         ELSE IF current \in {"++", "--"} \/ startswith_id(current)
         THEN <<C("parse_identifier_stat"), N("for_init", <<1>>)>>
         ELSE <<E("[170] Expected 'do', got '" \o current \o "'"), RN>>)

\* Parser.parse_function_call .. Parser.parse_return_stat
call_methods(rule, current) ==
    CASE rule = "parse_function_call" ->
        (IF current = "toRise"
         THEN <<M("toRise"), M("("), C("parse_param_item"), M(")"),
                N("function_call", <<1>>)>>
         ELSE IF current = "toFall"
         THEN <<M("toFall"), M("("), C("parse_param_item"), M(")"),
                N("function_call", <<1>>)>>
         ELSE IF current = "horizon"
         THEN <<M("horizon"), M("("), C("parse_param_item"), M(")"),
                N("function_call", <<1>>)>>
         ELSE IF current = "sizeOf"
         THEN <<M("sizeOf"), M("("), C("parse_param_item"), M(")"),
                N("function_call", <<1>>)>>
         ELSE IF current = "toInt"
         THEN <<M("toInt"), M("("), C("parse_param_item"), M(")"),
                N("function_call", <<1>>)>>
         ELSE IF current = "toFloat"
         THEN <<M("toFloat"), M("("), C("parse_param_item"), M(")"),
                N("function_call", <<1>>)>>
         ELSE IF current = "toString"
         THEN <<M("toString"), M("("), C("parse_param_item"), M(")"),
                N("function_call", <<1>>)>>
         ELSE IF current = "toChar"
         THEN <<M("toChar"), M("("), C("parse_param_item"), M(")"),
                N("function_call", <<1>>)>>
         ELSE IF current = "toBool"
         THEN <<M("toBool"), M("("), C("parse_param_item"), M(")"),
                N("function_call", <<1>>)>>
         ELSE IF current = "waft"
         THEN <<M("waft"), M("("), C("parse_param_item"), M(","),
                C("parse_param_item"), M(")"), N("function_call", <<1, 2>>)>>
         ELSE <<E("[173-182] Expected function call (toRise, toFall, horizon, sizeOf, toInt, toFloat, toString, toChar, toBool, waft), got '" \o current \o "'"),
                RN>>)
      [] rule = "parse_param_opts" ->
        (IF starts_expr(current)
         THEN <<C("parse_param_list"), N("param_opts", <<1>>)>>
         ELSE IF current = ")"
         THEN <<N("param_opts_empty", <<>>)>>
         ELSE <<E("[183-184] Expected '(', ')', identifier, value literal, or function call, got '" \o current \o "'"),
                RN>>)
      [] rule = "parse_param_list" ->
        (IF starts_expr(current)
         THEN <<C("parse_param_item"), C("parse_param_tail"),
                N("param_opts", <<1, 2>>)>>
         ELSE <<E("[185] Expected '(', identifier, value literal, or function call, got '" \o current \o "'"),
                RN>>)
      [] rule = "parse_param_item" ->
        (IF starts_expr(current)
         THEN <<C("parse_expr"), N("param_item", <<1>>)>>
         ELSE <<E("[186] Expected '(', identifier, value literal, or function call, got '" \o current \o "'"),
                RN>>)
      [] rule = "parse_param_tail" ->
        (IF current = ","
         THEN <<M(","), C("parse_param_list"), N("param_tail", <<1>>)>>
         ELSE IF current = ")"
         THEN <<N("param_tail_empty", <<>>)>>
         ELSE <<E("[187-188] Expected ',' or ')', got '" \o current \o "'"),
                RN>>)
      [] rule = "parse_return_stat" ->
        (IF current = "gasp"
         THEN <<M("gasp"), C("parse_expr"), M("~"), N("return_stat", <<1>>)>>
         ELSE IF current = "}"
         THEN <<N("return_stat_empty", <<>>)>>
         ELSE <<E("[189-190] Expected 'gasp' or end of program, got '"
                 \o current \o "'"),
                RN>>)

\* The body of a method, on the branch the current token selects.
method_body(rule, current) ==
    CASE rule = "parse" -> parse(current)
      [] rule = "parse_program" -> parse_program(current)
      [] rule \in {"parse_global_dec", "parse_declaration", "parse_normal",
              "parse_norm_dec", "parse_norm_tail"} ->
             declaration_methods(rule, current)
      [] rule \in {"parse_array", "parse_arr_element", "parse_1d_element",
              "parse_2d_element", "parse_element_tail", "parse_2d_tail"} ->
             array_methods(rule, current)
      [] rule \in {"parse_structure", "parse_struct_tail",
              "parse_struct_tail2", "parse_gust_tail"} ->
             structure_methods(rule, current)
      [] rule \in {"parse_constant", "parse_const_dec", "parse_const_tail",
              "parse_const_arr", "parse_const_1d", "parse_const_2d",
              "parse_const_2d_tail", "parse_struct_const"} ->
             constant_methods(rule, current)
      [] rule \in {"parse_dimension", "parse_row_size", "parse_col_size",
              "parse_size", "parse_data_type"} ->
             dimension_methods(rule, current)
      [] rule \in {"parse_sub_functions", "parse_air_func",
              "parse_return_type", "parse_params", "parse_params_dim",
              "parse_pdim_tail", "parse_pdim_size", "parse_params_tail"} ->
             function_methods(rule, current)
      [] rule \in {"parse_body", "parse_stmt_list", "parse_statement"} ->
             statement_methods(rule, current)
      [] rule \in {"parse_identifier_stat", "parse_id_stat_body",
              "parse_id_stat_tail", "parse_identifier", "parse_id_tail",
              "parse_id_access", "parse_unary_op", "parse_unary_op2"} ->
             identifier_methods(rule, current)
      [] rule \in {"parse_input_output", "parse_output", "parse_value",
              "parse_output_concat", "parse_output_tail"} ->
             output_methods(rule, current)
      [] rule \in {"parse_assi_op", "parse_assignment"} ->
             assignment_methods(rule, current)
      [] rule \in {"parse_expr", "parse_logic_expr", "parse_or_tail",
              "parse_and_expr", "parse_and_tail", "parse_rela_expr",
              "parse_rela_tail", "parse_rela_sym", "parse_arith_op1",
              "parse_arith_op2", "parse_arith_expr", "parse_arith_tail",
              "parse_term", "parse_term_tail", "parse_factor",
              "parse_primary"} ->
             expression_methods(rule, current)
      [] rule \in {"parse_stmt_ctrl", "parse_ctrl_flow", "parse_conditioner",
              "parse_if_stat", "parse_if_tail", "parse_cond_stat",
              "parse_switch_stat", "parse_switch_cases", "parse_switch_opts",
              "parse_switch_def", "parse_iteration", "parse_while_loop",
              "parse_for_loop", "parse_dowhile_loop", "parse_for_init"} ->
             control_methods(rule, current)
      [] rule \in {"parse_function_call", "parse_param_opts",
              "parse_param_list", "parse_param_item", "parse_param_tail",
              "parse_return_stat"} ->
             call_methods(rule, current)

\* A test in the middle of a body, made when it is reached.
guard(name, current, p, frame) ==
    CASE name = "parse_stmt_list_check" ->
             parse_stmt_list_check(frame.vals[Len(frame.vals)])
      [] name = "parse_and_tail_check" ->
             parse_and_tail_check(Parser_peek(p), current)
      [] name = "parse_arith_tail_check" ->
             parse_arith_tail_check(Parser_peek(p), current)
      [] name = "parse_norm_dec_check" ->
             parse_norm_dec_check(Parser_peek(p), current)
      [] name = "parse_normal_check" ->
             parse_normal_check(Parser_peek(p), current)
      [] name = "parse_or_tail_check" ->
             parse_or_tail_check(Parser_peek(p), current)
      [] name = "parse_program_check" ->
             parse_program_check(Parser_peek(p), current)
      [] name = "parse_rela_tail_check" ->
             parse_rela_tail_check(Parser_peek(p), current)
      [] name = "parse_term_tail_check" ->
             parse_term_tail_check(Parser_peek(p), current)

\* The methods with a try block, and their handlers.
Handlers == {"parse", "parse_program", "parse_statement"}

except_StopIteration(rule, p) ==
    CASE rule = "parse" -> parse_except(p)
      [] rule = "parse_program" -> parse_program_except(p)
      [] rule = "parse_statement" -> parse_statement_except(p)

(***************************************************************************)
(* The source texts the lexer is run on.                                   *)
(***************************************************************************)
MaxLen == 3

MaxIntDigits == 11

MaxFracDigits == 7

MaxStringLen == 3

MaxNames == 3

MaxNameLen == 16

Rep(c, n) == [i \in 1..n |-> c]

TextsOver(alphabet, n) == UNION {[1..k -> alphabet] : k \in 0..n}

One(chars) == {<<c>> : c \in chars}

Alphabet == {"x", "1", "-", " ", "(", ")", ".", "_", "\n", "="}

GeneralTexts == TextsOver(Alphabet, MaxLen)

KeywordFollow ==
    {<< >>} \cup One({"x", "_", "1", "i", " ", "\n", "(", "{", "~", ":", ",",
                      ")", "&", "="})

KeywordTexts ==
    {k \o f : k \in {r.chars : r \in KeywordTrie}
                       \cup {else_chars, else_chars \o <<"i", "f">>},
              f \in KeywordFollow}

NumberPrefix ==
    {<< >>, <<"-">>, <<"x", "-">>, <<"(", "-">>, <<"x", " ", "-">>,
     <<")", "-">>, <<"=", "-">>, <<" ", "-">>}

Fractions ==
    {<< >>} \cup {<<".">> \o Rep("3", m) : m \in 0..MaxFracDigits}
            \cup {<<".", ".">>, <<".", "3", ".">>, <<".", "3", ".", "3">>}

NumberFollow == {<< >>} \cup One({" ", ")", "x", "_", "@", "\n", "(", "+"})

NumberTexts ==
    {p \o Rep("7", n) \o f \o q :
        p \in NumberPrefix, n \in 1..MaxIntDigits, f \in Fractions,
        q \in NumberFollow}

StringTexts ==
    {<<"\"">> \o body \o e :
        body \in TextsOver({"a", "'", "\\", "\"", "q", " "}, MaxStringLen),
        e \in {<< >>, <<"\"">>, <<"\"", "x">>, <<"\"", "\n">>}}

CharTexts ==
    {<<"'">> \o body \o e :
        body \in TextsOver({"a", "b", "U+00E9", "\""}, 2),
        e \in {<< >>, <<"'">>, <<"'", "x">>, <<"'", "\n">>}}

Names == {<<"x">>, <<"y">>, <<"a", "b">>, <<"i", "n", "t", "o">>}

RECURSIVE Spaced(_)
Spaced(names) ==
    IF Len(names) = 0 THEN << >>
    ELSE IF Len(names) = 1 THEN names[1]
    ELSE names[1] \o <<" ">> \o Spaced(Tail(names))

IdentifierTexts ==
    {Spaced(ns) : ns \in TextsOver(Names, MaxNames)}
        \cup {Rep("a", n) \o f : n \in (MAX_ID_LENGTH - 1)..MaxNameLen,
                                f \in {<< >>, <<" ">>, <<"@">>, <<"\n">>}}
        \cup {<<"_">> \o t : t \in TextsOver({"a", "_", "1", " "}, 2)}

Symbols ==
    One(OperatorStart)
        \cup {<<c, d>> : c \in OperatorStart,
                         d \in {"=", "+", "-", "&", "|", "/", "~"}}

SymbolFollow ==
    {<< >>} \cup One({"x", "1", " ", "\n", "(", ")", "{", "}", "[", "]", "-",
                      "+", "=", "~", ",", "\"", "'", "!", ":", "@", ".", "_"})

OperatorTexts == {sy \o f : sy \in Symbols, f \in SymbolFollow}

CommentTexts ==
    {<<"/", "/">> \o t : t \in TextsOver({"x", "\n", "/"}, 2)}
        \cup {<<"/", "~">> \o t : t \in TextsOver({"x", "~", "/"}, 3)}

\* The texts the language description gives as examples.
ExampleTexts ==
    {<<"i", "n", "t", "e", "g", "e", "r">>, <<"x", "-", "1">>,
     <<"(", "-", "1", ")">>, <<"1", "2", ".">>, <<"e", "l", "s", "e", " ", "{">>}

UnknownTexts == One({"#", "$", "?", ";", "@", "\\", "\t", "\r", "U+00E9"})

Sources ==
    GeneralTexts \cup KeywordTexts \cup NumberTexts \cup StringTexts
        \cup CharTexts \cup IdentifierTexts \cup OperatorTexts
        \cup CommentTexts \cup UnknownTexts \cup ExampleTexts

(***************************************************************************)
(* The lexer as a state machine: one step per iteration of the loop of     *)
(* tokenize, named after the routine that handles the iteration.           *)
(***************************************************************************)
Init ==
    /\ source_code \in Sources
    /\ position = 0
    /\ line = 1
    /\ column = 1
    /\ tokens = << >>
    /\ id_counter = 0
    /\ id_map = << >>
    /\ lexer2 = Lexer(source_code)
    /\ pc = "tokenize"
    /\ parser = Parser(<< >>)
    /\ frames = << >>
    /\ control = "idle"
    /\ result = [ast |-> NoneNode, errors |-> << >>]
    /\ history = [error_at |-> << >>, suppressed |-> 0, failure |-> << >>]
    /\ semantic = [called |-> FALSE]

\* What an iteration of the loop leaves alone.
others == <<source_code, lexer2, pc, parservars, semantic>>

Iterate(routine) ==
    /\ pc = "tokenize"
    /\ position < Len(source_code)
    /\ \E took \in {iteration(self)} :
           /\ took.routine = routine
           /\ position' = took.lx.position
           /\ line' = took.lx.line
           /\ column' = took.lx.column
           /\ tokens' = took.lx.tokens
           /\ id_counter' = took.lx.id_counter
           /\ id_map' = took.lx.id_map

SkipWhitespace == Iterate("whitespace") /\ UNCHANGED others

\* '-' after an operand: the operator routine takes it.
MinusOperator ==
    /\ peek(self, 0) = "-" /\ after_operand(self)
    /\ Iterate("td_operator_structure") /\ UNCHANGED others

\* '-' elsewhere: the number routine is tried first,
MinusNumber ==
    /\ peek(self, 0) = "-" /\ ~after_operand(self)
    /\ Iterate("td_number") /\ UNCHANGED others

\* and the operator routine when the number routine returns False.
MinusSign ==
    /\ peek(self, 0) = "-" /\ ~after_operand(self)
    /\ Iterate("td_operator_structure") /\ UNCHANGED others

ScanString == Iterate("td_string") /\ UNCHANGED others

ScanChar == Iterate("td_char") /\ UNCHANGED others

ScanNumber ==
    peek(self, 0) # "-" /\ Iterate("td_number") /\ UNCHANGED others

ScanKeyword == Iterate("td_keyword") /\ UNCHANGED others

ScanIdentifier == Iterate("td_identifier") /\ UNCHANGED others

ScanOperator ==
    peek(self, 0) # "-" /\ Iterate("td_operator_structure") /\ UNCHANGED others

ScanInvalidIdentifier == Iterate("td_invalid_identifier") /\ UNCHANGED others

ScanUnknown == Iterate("unknown") /\ UNCHANGED others

\* The loop condition fails: tokenize returns self.tokens.
Return ==
    /\ pc = "tokenize"
    /\ position >= Len(source_code)
    /\ pc' = "returned"
    /\ UNCHANGED <<lexvars, lexer2, parservars, semantic>>

\* The second Lexer object tokenizes the same text.
TokenizeAgain ==
    /\ pc = "returned"
    /\ lexer2' = tokenize(lexer2)
    /\ pc' = "done"
    /\ UNCHANGED <<lexvars, parservars, semantic>>

Next ==
    \/ SkipWhitespace
    \/ MinusOperator
    \/ MinusNumber
    \/ MinusSign
    \/ ScanString
    \/ ScanChar
    \/ ScanNumber
    \/ ScanKeyword
    \/ ScanIdentifier
    \/ ScanOperator
    \/ ScanInvalidIdentifier
    \/ ScanUnknown
    \/ Return
    \/ TokenizeAgain

Spec == Init /\ [][Next]_vars

(***************************************************************************)
(* The token lists the parser is run on: programs of the language and one  *)
(* that lacks a return type, each with one token removed, replaced or      *)
(* inserted and each cut short, and every short list over a few types.     *)
(***************************************************************************)
MaxTokens == 3

\* The value the lexer gives a token of a type.
value_of(type) ==
    IF type = "int_lit" THEN "5"
    ELSE IF startswith_id(type) THEN "x"
    ELSE type

\* Tokens of the given types, on one line, a column apart.
tokens_of(types) ==
    [i \in 1..Len(types) |-> Token(types[i], value_of(types[i]), 1, i)]

Programs ==
    {<<"atmosphere", "(", ")", "{", "}">>,
     <<"universal", "int", "id1", "~", "atmosphere", "(", ")", "{",
       "id1", "=", "int_lit", "~", "}">>,
     <<"air", "vacuum", "id1", "(", "int", "id2", ",", "int", "id3", ")",
       "{", "}", "atmosphere", "(", ")", "{", "id1", "(", "int_lit", ",",
       "id1", ")", "~", "}">>,
     <<"air", "int", "id1", "(", ")", "{", "gasp", "int_lit", "~", "}",
       "atmosphere", "(", ")", "{", "int", "id2", "=", "id1", "(", ")", "+",
       "int_lit", ",", "id3", "~", "}">>,
     <<"universal", "int", "id1", "=", "int_lit", "~", "universal", "int",
       "id2", "~", "atmosphere", "(", ")", "{", "int", "id3", "~", "}">>,
     <<"air", "id1", "(", ")", "{", "}", "atmosphere", "(", ")", "{", "id2",
       "=", "int_lit", "~", "}">>}

Replacements == {"~", "}", ")", "id1", "int", "=", "atmosphere", "+"}

removed(types, i) == SubSeq(types, 1, i - 1) \o SubSeq(types, i + 1, Len(types))

replaced(types, i, type) == [types EXCEPT ![i] = type]

inserted(types, i, type) ==
    SubSeq(types, 1, i - 1) \o <<type>> \o SubSeq(types, i, Len(types))

Damaged ==
    UNION {{removed(types, i) : i \in 1..Len(types)}
               \cup {SubSeq(types, 1, i) : i \in 1..Len(types)}
               \cup {replaced(types, i, type) :
                         i \in 1..Len(types), type \in Replacements}
               \cup {inserted(types, i, type) :
                         i \in 1..Len(types), type \in {"~", "}", "id1"}}
           : types \in Programs}

ShortTypes == {"universal", "atmosphere", "int", "id1", "~", "(", ")", "{", "}"}

ShortLists == UNION {[1..n -> ShortTypes] : n \in 0..MaxTokens}

TokenLists == {tokens_of(types) : types \in Programs \cup Damaged \cup ShortLists}

(***************************************************************************)
(* The parser as a state machine: one step per instruction of the method   *)
(* on top of the stack, and one per frame an exception leaves.             *)
(***************************************************************************)
NoResult == [ast |-> NoneNode, errors |-> << >>]

NoHistory == [error_at |-> << >>, suppressed |-> 0, failure |-> << >>]

\* No SemanticAnalyzer has been made.
NotAnalyzed == [called |-> FALSE]

\* The lexer at rest, while the parser runs.
LexerIdle ==
    /\ source_code = << >>
    /\ position = 0
    /\ line = 1
    /\ column = 1
    /\ tokens = << >>
    /\ id_counter = 0
    /\ id_map = << >>
    /\ lexer2 = Lexer(<< >>)
    /\ pc = "idle"

\* The parser before it is constructed, while the lexer runs.
ParserIdle ==
    /\ parser = Parser(<< >>)
    /\ frames = << >>
    /\ control = "idle"
    /\ result = NoResult
    /\ history = NoHistory

InitParse ==
    /\ LexerIdle
    /\ parser \in {Parser(toks) : toks \in TokenLists}
    /\ frames = << >>
    /\ control = "constructed"
    /\ result = NoResult
    /\ history = NoHistory
    /\ semantic = NotAnalyzed

lexer_state == <<lexvars, lexer2, pc>>

\* A call of a method: its frame, inside the try block if it has one.
Frame(rule, current) ==
    [rule |-> rule, code |-> method_body(rule, current), vals |-> << >>,
     tok |-> "", try |-> rule \in Handlers]

top == frames[Len(frames)]

instr == Head(top.code)

at(op) == control = "run" /\ Head(frames[Len(frames)].code).op = op

replace_top(frame) == [frames EXCEPT ![Len(frames)] = frame]

\* The frames once the top one has returned node to its caller.
returned(node) ==
    [SubSeq(frames, 1, Len(frames) - 1)
        EXCEPT ![Len(frames) - 1].vals = Append(@, node)]

\* The state at the first match or check_id that fails.
noted(by) ==
    IF history.failure # << >> THEN history
    ELSE [history EXCEPT !.failure =
              <<[by |-> by, position |-> parser.position,
                 errors |-> parser.errors, depth |-> Len(frames)]>>]

\* app.py calls parse() on the new Parser.
Parse ==
    /\ control = "constructed"
    /\ frames' = <<Frame("parse", Parser_peek(parser))>>
    /\ control' = "run"
    /\ UNCHANGED <<parser, result, history, lexer_state, semantic>>

Call ==
    /\ at("call")
    /\ frames' = Append(replace_top([top EXCEPT !.code = Tail(@)]),
                        Frame(instr.a, Parser_peek(parser)))
    /\ UNCHANGED <<parser, control, result, history, lexer_state, semantic>>

\* match at the expected token: advance and return the token.
Match ==
    /\ at("match")
    /\ parser.current_token # NoToken
    /\ parser.current_token.type = instr.a
    /\ parser' = Parser_advance(parser)
    /\ frames' = replace_top([top EXCEPT !.code = Tail(@),
                                         !.tok = parser.current_token.value])
    /\ UNCHANGED <<control, result, history, lexer_state, semantic>>

MatchFails ==
    /\ at("match")
    /\ parser.current_token = NoToken \/ parser.current_token.type # instr.a
    /\ frames' = replace_top([top EXCEPT
                      !.code = Parser_match(parser, instr.a) \o Tail(@)])
    /\ history' = noted("match")
    /\ UNCHANGED <<parser, control, result, lexer_state, semantic>>

\* check_id at an identifier: match it and return an identifier node.
CheckId ==
    /\ at("check_id")
    /\ startswith_id(Parser_peek(parser))
    /\ parser' = Parser_advance(parser)
    /\ frames' = replace_top([top EXCEPT
                      !.code = Tail(@),
                      !.vals = Append(@, ASTNode("identifier", << >>,
                                                 parser.current_token.type))])
    /\ UNCHANGED <<control, result, history, lexer_state, semantic>>

CheckIdFails ==
    /\ at("check_id")
    /\ ~startswith_id(Parser_peek(parser))
    /\ frames' = replace_top([top EXCEPT !.code = check_id(parser) \o Tail(@)])
    /\ history' = noted("check_id")
    /\ UNCHANGED <<parser, control, result, lexer_state, semantic>>

Error ==
    /\ at("error")
    /\ \E p \in {Parser_error(parser, instr.a)} :
           /\ parser' = p
           /\ history' =
                  IF Len(p.errors) > Len(parser.errors)
                  THEN [history EXCEPT
                            !.error_at = Append(@, parser.position)]
                  ELSE [history EXCEPT !.suppressed = @ + 1]
    /\ frames' = replace_top([top EXCEPT !.code = Tail(@)])
    /\ UNCHANGED <<control, result, lexer_state, semantic>>

Raise ==
    /\ at("raise")
    /\ control' = "raise"
    /\ UNCHANGED <<parser, frames, result, history, lexer_state, semantic>>

Guard ==
    /\ at("guard")
    /\ frames' = replace_top([top EXCEPT
                      !.code = guard(instr.a, instr.b, parser, top)
                                   \o Tail(@)])
    /\ UNCHANGED <<parser, control, result, history, lexer_state, semantic>>

Push ==
    /\ at("value")
    /\ frames' = replace_top([top EXCEPT
                      !.code = Tail(@),
                      !.vals = Append(@, ASTNode(instr.a, << >>, instr.b))])
    /\ UNCHANGED <<parser, control, result, history, lexer_state, semantic>>

ReturnNode ==
    /\ at("return") \/ at("return_token")
    /\ frames' = returned(ASTNode(instr.a,
                              [i \in 1..Len(instr.sel) |->
                                   top.vals[instr.sel[i]]],
                              IF instr.op = "return_token" THEN top.tok
                              ELSE instr.b))
    /\ UNCHANGED <<parser, control, result, history, lexer_state, semantic>>

ReturnNone ==
    /\ at("return_none")
    /\ frames' = returned(NoneNode)
    /\ UNCHANGED <<parser, control, result, history, lexer_state, semantic>>

\* The exception leaves a method that has no handler for it.
Unwind ==
    /\ control = "raise"
    /\ ~top.try
    /\ frames' = SubSeq(frames, 1, Len(frames) - 1)
    /\ UNCHANGED <<parser, control, result, history, lexer_state, semantic>>

\* The exception reaches a try block: its handler runs.
Catch ==
    /\ control = "raise"
    /\ top.try
    /\ frames' = replace_top([top EXCEPT
                      !.code = except_StopIteration(top.rule, parser),
                      !.try = FALSE])
    /\ control' = "run"
    /\ UNCHANGED <<parser, result, history, lexer_state, semantic>>

\* parse() returns the pair of the AST and the error list.
ParseReturns ==
    /\ at("return_parse")
    /\ result' = [ast |-> IF instr.a = "ast" THEN top.vals[1] ELSE NoneNode,
                  errors |-> parser.errors]
    /\ control' = "done"
    /\ frames' = << >>
    /\ UNCHANGED <<parser, history, lexer_state, semantic>>

NextParse ==
    \/ Parse
    \/ Call
    \/ Match
    \/ MatchFails
    \/ CheckId
    \/ CheckIdFails
    \/ Error
    \/ Raise
    \/ Guard
    \/ Push
    \/ ReturnNode
    \/ ReturnNone
    \/ Unwind
    \/ Catch
    \/ ParseReturns

SpecParse == InitParse /\ [][NextParse]_vars

(***************************************************************************)
(* The semantic analyzer (semantic.py).  A SemanticAnalyzer is a record of *)
(* the fields of the object; a method is an operator from the analyzer to  *)
(* the analyzer it leaves, or to a record [v, sa] of the value it returns  *)
(* and the analyzer it leaves.  A dict is a function over its keys, None   *)
(* is the string "None", a pair (line, column) is a tuple.  The field      *)
(* raised says that an exception is propagating and the field exception    *)
(* holds its message; while one propagates no method has any effect.       *)
(***************************************************************************)
\* {}
EmptyDict == << >>

\* d[k] = v
put(d, k, v) == [x \in DOMAIN d \cup {k} |-> IF x = k THEN v ELSE d[x]]

\* d.get(k, default)
get(d, k, default) == IF k \in DOMAIN d THEN d[k] ELSE default

\* s.startswith(prefix)
startswith(s, prefix) ==
    Len(s) >= Len(prefix) /\ SubSeq(s, 1, Len(prefix)) = prefix

\* isinstance(child, ASTNode): neither a str, nor a bound method, nor None.
is_ASTNode(child) == child.type \notin {"str", "method", "None"}

\* class SemanticError
SemanticError(message, ln, col) ==
    [message |-> message, line |-> ln, column |-> col]

NUMERIC_TYPES == {"int", "float"}

PRIMITIVE_TYPES == {"int", "float", "char", "string", "bool"}

UNARY_TYPES == {"int", "char"}

ARITHMETIC_TYPES == {"int", "float", "char"}

RELATIONAL_TYPES == {"int", "float", "char"}

CONCAT_TYPES == {"string", "char"}

\* source -> the targets it converts to, in a declaration or an assignment
IMPLICIT_CONVERSIONS ==
    [int |-> {"float", "bool", "char"},
     float |-> {"int", "char", "bool"},
     char |-> {"string", "int", "float"},
     bool |-> {"int", "float"}]

\* source -> the targets it converts to, as the argument of a call
PARAM_CONVERSIONS == [int |-> {"float"}, float |-> {"int"}]

BUILTIN_RETURN_TYPES ==
    [toRise |-> "string", toFall |-> "string", horizon |-> "int",
     sizeOf |-> "int", toInt |-> "int", toFloat |-> "float",
     toString |-> "string", toChar |-> "char", toBool |-> "bool",
     waft |-> "float"]

BUILTIN_NAMES == DOMAIN BUILTIN_RETURN_TYPES

\* The keywords whose positions _build_token_map records.
PositionedKeywords ==
    {"gust", "air", "wind", "stream", "resist", "flow", "gasp", "cycle",
     "if", "elseif", "else", "inhale", "exhale", "atmosphere", "echo", "do"}

LiteralTypes == {"int_lit", "float_lit", "string_lit", "char_lit"}

\* The positions of the tokens of a list, in its order.
positions_of(toks) == [i \in 1..Len(toks) |-> <<toks[i].line, toks[i].column>>]

\* SemanticAnalyzer._build_token_map, the dict keyword_positions: for each
\* keyword of the list that occurs, the positions it occurs at.
keyword_positions_of(toks) ==
    [type \in {toks[i].type : i \in 1..Len(toks)} \cap PositionedKeywords |->
        positions_of(SelectSeq(toks, LAMBDA token : token.type = type))]

\* SemanticAnalyzer._build_token_map, the dict literal_positions: for each
\* value of a literal, the positions of the literals with that value.
literal_positions_of(toks) ==
    [value \in {toks[i].value : i \in {j \in 1..Len(toks) :
                                          toks[j].type \in LiteralTypes}} |->
        positions_of(SelectSeq(toks, LAMBDA token :
                         token.type \in LiteralTypes /\ token.value = value))]

\* SemanticAnalyzer._build_token_map, the dict it returns.  The loop writes
\* a key at every identifier token of that value or type and at every
\* literal token of that type, and at a positioned keyword of that type
\* only while the key is absent: the key ends at the last of the former
\* tokens, or without any at the first such keyword.
build_token_map(toks) ==
    LET n == Len(toks)
        ids == {i \in 1..n : startswith(toks[i].type, "id")}
        keywords == {i \in (1..n) \ ids : toks[i].type \in PositionedKeywords}
        literals == {i \in (1..n) \ ids : toks[i].type \in LiteralTypes}
        always(key) == {i \in ids : key \in {toks[i].value, toks[i].type}}
                           \cup {i \in literals : toks[i].type = key}
        if_absent(key) == {i \in keywords : toks[i].type = key}
        last(indices) == CHOOSE i \in indices : \A j \in indices : j <= i
        first(indices) == CHOOSE i \in indices : \A j \in indices : i <= j
        keys == {toks[i].value : i \in ids}
                    \cup {toks[i].type : i \in ids \cup keywords \cup literals}
    IN [key \in keys |->
           positions_of(toks)[IF always(key) # {} THEN last(always(key))
                              ELSE first(if_absent(key))]]

\* SemanticAnalyzer._build_identifier_map: each identifier type with the
\* value of the last token of the type.
build_identifier_map(toks) ==
    LET ids == {i \in 1..Len(toks) : startswith(toks[i].type, "id")}
        last(type) == CHOOSE i \in ids :
                          /\ toks[i].type = type
                          /\ \A j \in ids : toks[j].type = type => j <= i
    IN [type \in {toks[i].type : i \in ids} |-> toks[last(type)].value]

\* SemanticAnalyzer.__init__
SemanticAnalyzer(ast, toks) ==
    [ast |-> ast,
     tokens |-> toks,
     errors |-> << >>,
     warnings |-> << >>,
     scopes |-> <<EmptyDict>>,
     scope_stack |-> <<"global">>,
     structures |-> EmptyDict,
     current_function |-> None,
     current_function_return_type |-> None,
     in_loop |-> FALSE,
     in_switch |-> FALSE,
     in_atmosphere |-> FALSE,
     has_return_in_current_func |-> FALSE,
     in_struct_member_access |-> FALSE,
     token_map |-> build_token_map(toks),
     keyword_positions |-> keyword_positions_of(toks),
     literal_positions |-> literal_positions_of(toks),
     identifier_map |-> build_identifier_map(toks),
     raised |-> FALSE,
     exception |-> None]

\* raise: the exception starts to propagate, unless one already does.
raise(sa, message) ==
    IF sa.raised THEN sa
    ELSE [sa EXCEPT !.raised = TRUE, !.exception = message]

\* The AttributeError of child.type, child.children or child.value on an
\* object that is not an ASTNode, as Python words it.
AttributeError(child, attribute) ==
    "'" \o (IF child.type = "str" THEN "str"
            ELSE IF child.type = "method" THEN "function"
            ELSE "NoneType")
        \o "' object has no attribute '" \o attribute \o "'"

\* The analyzer once child.type (or another attribute) raised that error.
no_attribute(sa, child, attribute) == raise(sa, AttributeError(child, attribute))

\* The index of the first child of the node that has no attribute type, the
\* one a loop reading child.type of every child raises at; 0 if there is none.
untyped_child(node) ==
    LET untyped == {i \in 1..Len(node.children) :
                       node.children[i].type \in {"str", "method", "None"}}
    IN IF untyped = {} THEN 0
       ELSE CHOOSE i \in untyped : \A j \in untyped : i <= j

\* SemanticAnalyzer.get_actual_name
get_actual_name(sa, identifier) == get(sa.identifier_map, identifier, identifier)

\* SemanticAnalyzer.enter_scope
enter_scope(sa, scope_name) ==
    IF sa.raised THEN sa
    ELSE [sa EXCEPT !.scopes = Append(@, EmptyDict),
                    !.scope_stack = Append(@, scope_name)]

\* A faulty exit_scope without the test of the depth.
exit_scope_at_any_depth(sa) ==
    IF sa.raised THEN sa
    ELSE [sa EXCEPT !.scopes = SubSeq(@, 1, Len(@) - 1),
                    !.scope_stack = SubSeq(@, 1, Len(@) - 1)]

\* SemanticAnalyzer.exit_scope
exit_scope(sa) ==
    IF sa.raised \/ Len(sa.scopes) <= 1 THEN sa
    ELSE [sa EXCEPT !.scopes = SubSeq(@, 1, Len(@) - 1),
                    !.scope_stack = SubSeq(@, 1, Len(@) - 1)]

\* The entry declare_symbol and declare_global make; kwargs holds the
\* keyword arguments given.
Symbol(name, symbol_type, data_type, scope, kwargs) ==
    [name |-> name,
     symbol_type |-> symbol_type,
     data_type |-> data_type,
     scope |-> scope,
     is_constant |-> get(kwargs, "is_constant", FALSE),
     is_array |-> get(kwargs, "is_array", FALSE),
     array_dimensions |-> get(kwargs, "array_dimensions", << >>),
     is_function |-> get(kwargs, "is_function", FALSE),
     params |-> get(kwargs, "params", << >>),
     return_type |-> get(kwargs, "return_type", None),
     is_structure |-> get(kwargs, "is_structure", FALSE),
     struct_members |-> get(kwargs, "struct_members", EmptyDict),
     struct_type |-> get(kwargs, "struct_type", None)]

\* SemanticAnalyzer.declare_symbol: [v, sa]
declare_symbol(sa, name, symbol_type, data_type, kwargs) ==
    LET depth == Len(sa.scopes)
    IN IF sa.raised \/ name \in DOMAIN sa.scopes[depth]
       THEN [v |-> FALSE, sa |-> sa]
       ELSE [v |-> TRUE,
             sa |-> [sa EXCEPT !.scopes[depth] =
                        put(@, name,
                            Symbol(name, symbol_type, data_type,
                                   sa.scope_stack[Len(sa.scope_stack)],
                                   kwargs))]]

\* SemanticAnalyzer.declare_global: [v, sa]
declare_global(sa, name, symbol_type, data_type, kwargs) ==
    IF sa.raised \/ name \in DOMAIN sa.scopes[1]
    THEN [v |-> FALSE, sa |-> sa]
    ELSE [v |-> TRUE,
          sa |-> [sa EXCEPT !.scopes[1] =
                     put(@, name,
                         Symbol(name, symbol_type, data_type, "global",
                                kwargs))]]

\* The None that lookup returns.
NoSymbol == [symbol_type |-> None]

RECURSIVE lookup_from(_, _, _)
\* for scope in reversed(self.scopes), from frame i down
lookup_from(sa, name, i) ==
    IF i = 0 THEN NoSymbol
    ELSE IF name \in DOMAIN sa.scopes[i] THEN sa.scopes[i][name]
    ELSE lookup_from(sa, name, i - 1)

\* A faulty lookup that finds no name in any frame.
lookup_nowhere(sa, name) == NoSymbol

\* SemanticAnalyzer.lookup
lookup(sa, name) == lookup_from(sa, name, Len(sa.scopes))

\* SemanticAnalyzer.is_global_scope
is_global_scope(sa) == Len(sa.scopes) = 1

\* SemanticAnalyzer.define_structure: [v, sa]
define_structure(sa, name, members) ==
    IF sa.raised \/ name \in DOMAIN sa.structures
    THEN [v |-> FALSE, sa |-> sa]
    ELSE [v |-> TRUE, sa |-> [sa EXCEPT !.structures = put(@, name, members)]]

\* SemanticAnalyzer.get_structure; the members of a structure are the pairs
\* <<name, type>> in the order of the dict, and None is no pair at all.
get_structure(sa, name) == get(sa.structures, name, << >>)

\* SemanticAnalyzer.error
Analyzer_error(sa, message, ln, col) ==
    IF sa.raised THEN sa
    ELSE [sa EXCEPT !.errors = Append(@, SemanticError(message, ln, col))]

\* SemanticAnalyzer.get_location
get_location(sa, identifier) == get(sa.token_map, identifier, <<0, 0>>)

\* SemanticAnalyzer.get_literal_location
get_literal_location(sa, value) ==
    IF value \in DOMAIN sa.literal_positions
    THEN sa.literal_positions[value][1]
    ELSE <<0, 0>>

RECURSIVE get_node_location(_, _)
RECURSIVE get_node_location_loop(_, _, _)
\* SemanticAnalyzer.get_node_location
get_node_location(sa, node) ==
    IF ~is_ASTNode(node) THEN <<0, 0>>
    ELSE IF node.type = "identifier" THEN get_location(sa, node.value)
    ELSE IF node.type = "value" THEN get_literal_location(sa, node.value)
    ELSE get_node_location_loop(sa, node, 1)

\* SemanticAnalyzer.get_node_location, the loop over the children from i on
get_node_location_loop(sa, node, i) ==
    IF i > Len(node.children) THEN <<0, 0>>
    ELSE LET child == node.children[i]
         IN IF ~is_ASTNode(child)
            THEN get_node_location_loop(sa, node, i + 1)
            ELSE IF child.type = "identifier"
            THEN get_location(sa, child.value)
            ELSE IF child.type = "value"
            THEN get_literal_location(sa, child.value)
            ELSE LET loc == get_node_location(sa, child)
                 IN IF loc # <<0, 0>> THEN loc
                    ELSE get_node_location_loop(sa, node, i + 1)

RECURSIVE find_value_location(_, _)
RECURSIVE find_value_location_loop(_, _, _)
\* SemanticAnalyzer._find_value_location
find_value_location(sa, node) ==
    IF ~is_ASTNode(node) THEN <<0, 0>>
    ELSE IF node.type \in {"value", "output_content"}
    THEN get_literal_location(sa, node.value)
    ELSE IF node.type = "identifier" THEN get_location(sa, node.value)
    ELSE find_value_location_loop(sa, node, 1)

\* SemanticAnalyzer._find_value_location, the loop over the children
find_value_location_loop(sa, node, i) ==
    IF i > Len(node.children) THEN <<0, 0>>
    ELSE LET loc == find_value_location(sa, node.children[i])
         IN IF loc # <<0, 0>> THEN loc
            ELSE find_value_location_loop(sa, node, i + 1)

RECURSIVE call(_, _, _)
RECURSIVE visit(_, _)
RECURSIVE Analyzer_get_expression_type(_, _)
RECURSIVE check_function_call(_, _, _)

\* self._get_expression_type(node): [v, sa], v the type it returns
get_expression_type(sa, node) == call("_get_expression_type", sa, node)

\* Python's truth value of a string or None.
truthy(x) == x \notin {None, ""}

\* The analyzer with the fields changed, unless an exception propagates.
unless_raised(sa, changed) == IF sa.raised THEN sa ELSE changed

\* sub in s
contains(s, sub) ==
    \E i \in 1..(Len(s) - Len(sub) + 1) : SubSeq(s, i, i + Len(sub) - 1) = sub

Digits == {"0", "1", "2", "3", "4", "5", "6", "7", "8", "9"}

\* int(value) succeeds: an optional sign and then digits only.
is_int(value) ==
    LET digits == IF Len(value) > 0 /\ SubSeq(value, 1, 1) \in {"+", "-"}
                  THEN SubSeq(value, 2, Len(value)) ELSE value
    IN /\ Len(digits) > 0
       /\ \A i \in 1..Len(digits) : SubSeq(digits, i, i) \in Digits

\* SemanticAnalyzer._get_value_type
get_value_type(value) ==
    IF value \in {"yuh", "naur"} THEN "bool"
    ELSE IF contains(value, ".") THEN "float"
    ELSE IF is_int(value) THEN "int"
    ELSE None

\* A faulty check that reads the table in both directions.
types_compatible_both_ways(target_type, source_type) ==
    \/ target_type = source_type
    \/ /\ source_type \in DOMAIN IMPLICIT_CONVERSIONS
       /\ target_type \in IMPLICIT_CONVERSIONS[source_type]
    \/ /\ target_type \in DOMAIN IMPLICIT_CONVERSIONS
       /\ source_type \in IMPLICIT_CONVERSIONS[target_type]

\* SemanticAnalyzer._types_compatible
types_compatible(target_type, source_type) ==
    \/ target_type = source_type
    \/ /\ source_type \in DOMAIN IMPLICIT_CONVERSIONS
       /\ target_type \in IMPLICIT_CONVERSIONS[source_type]

\* SemanticAnalyzer._types_compatible_for_params
types_compatible_for_params(param_type, arg_type) ==
    \/ param_type = arg_type
    \/ /\ arg_type \in DOMAIN PARAM_CONVERSIONS
       /\ param_type \in PARAM_CONVERSIONS[arg_type]

\* SemanticAnalyzer._is_array_element_compatible
is_array_element_compatible(array_type, element_type) ==
    \/ array_type = element_type
    \/ array_type = "int" /\ element_type \in {"int", "bool", "char", "float"}
    \/ array_type = "float" /\ element_type \in {"float", "int"}
    \/ array_type = "char" /\ element_type \in {"char", "int"}
    \/ array_type = "string" /\ element_type \in {"string", "char"}
    \/ array_type = "bool" /\ element_type \in {"bool", "int"}

RECURSIVE process_node(_, _, _)
\* SemanticAnalyzer._get_array_dimensions, process_node from child i on
process_node(node, i, dimensions) ==
    IF i > Len(node.children) THEN dimensions
    ELSE LET child == node.children[i]
         IN process_node(node, i + 1,
                IF child.type = "size" /\ child.children # << >>
                THEN Append(dimensions, "sized")
                ELSE IF child.type = "size_empty"
                THEN Append(dimensions, "unsized")
                ELSE IF child.type = "col_size"
                THEN process_node(child, 1, dimensions)
                ELSE dimensions)

RECURSIVE process_node_untyped(_, _)
\* SemanticAnalyzer._get_array_dimensions, process_node from child i on: the
\* child whose type it cannot read, as a list of at most that one.
process_node_untyped(node, i) ==
    IF i > Len(node.children) THEN << >>
    ELSE LET child == node.children[i]
             inner == IF child.type = "col_size"
                      THEN process_node_untyped(child, 1) ELSE << >>
         IN IF ~is_ASTNode(child) THEN <<child>>
            ELSE IF inner # << >> THEN inner
            ELSE process_node_untyped(node, i + 1)

\* SemanticAnalyzer._get_array_dimensions
get_array_dimensions(row_size_node) ==
    LET dimensions == process_node(row_size_node, 1, << >>)
    IN IF dimensions # << >> THEN dimensions ELSE <<"unsized">>

\* The check of one size of an array in _validate_array_size; what is
\* "size" or "column size".
validate_size(sa, child, identifier, what) ==
    LET r == get_expression_type(sa, child)
        found == find_value_location(sa, child)
        loc == IF found = <<0, 0>> /\ truthy(identifier)
               THEN get_location(sa, identifier) ELSE found
        actual_name == IF truthy(identifier)
                       THEN get_actual_name(sa, identifier) ELSE "array"
    IN IF truthy(r.v) /\ r.v # "int"
       THEN Analyzer_error(r.sa,
                "Array " \o what \o " for '" \o actual_name
                    \o "' must be an integer, got '" \o r.v \o "'",
                loc[1], loc[2])
       ELSE r.sa

RECURSIVE validate_col_size(_, _, _, _)
\* SemanticAnalyzer._validate_array_size, the loop over a col_size
validate_col_size(sa, node, i, identifier) ==
    IF sa.raised \/ i > Len(node.children) THEN sa
    ELSE LET col_child == node.children[i]
         IN validate_col_size(
                IF ~is_ASTNode(col_child)
                THEN no_attribute(sa, col_child, "type")
                ELSE IF col_child.type = "pdim_size" /\ col_child.children # << >>
                THEN validate_size(sa, col_child, identifier, "column size")
                ELSE sa,
                node, i + 1, identifier)

RECURSIVE validate_array_size_loop(_, _, _, _)
\* SemanticAnalyzer._validate_array_size, the loop over the row_size
validate_array_size_loop(sa, node, i, identifier) ==
    IF sa.raised \/ i > Len(node.children) THEN sa
    ELSE LET child == node.children[i]
         IN validate_array_size_loop(
                IF ~is_ASTNode(child) THEN no_attribute(sa, child, "type")
                ELSE IF child.type = "size" /\ child.children # << >>
                THEN validate_size(sa, child, identifier, "size")
                ELSE IF child.type = "col_size" /\ child.children # << >>
                THEN validate_col_size(sa, child, 1, identifier)
                ELSE sa,
                node, i + 1, identifier)

\* SemanticAnalyzer._validate_array_size
validate_array_size(sa, row_size_node, identifier) ==
    validate_array_size_loop(sa, row_size_node, 1, identifier)

\* The check of one index in _validate_array_index.
validate_index(sa, child) ==
    LET r == get_expression_type(sa, child)
        loc == find_value_location(sa, child)
    IN IF truthy(r.v) /\ r.v # "int"
       THEN Analyzer_error(r.sa,
                "Array index must be an integer, got '" \o r.v \o "'",
                loc[1], loc[2])
       ELSE r.sa

RECURSIVE validate_col_index(_, _, _)
\* SemanticAnalyzer._validate_array_index, the loop over a col_size
validate_col_index(sa, node, i) ==
    IF sa.raised \/ i > Len(node.children) THEN sa
    ELSE LET col_child == node.children[i]
         IN validate_col_index(
                IF ~is_ASTNode(col_child)
                THEN no_attribute(sa, col_child, "type")
                ELSE IF col_child.type = "pdim_size" /\ col_child.children # << >>
                THEN validate_index(sa, col_child) ELSE sa,
                node, i + 1)

RECURSIVE validate_array_index_loop(_, _, _)
\* SemanticAnalyzer._validate_array_index, the loop over the row_size
validate_array_index_loop(sa, node, i) ==
    IF sa.raised \/ i > Len(node.children) THEN sa
    ELSE LET child == node.children[i]
         IN validate_array_index_loop(
                IF ~is_ASTNode(child) THEN no_attribute(sa, child, "type")
                ELSE IF child.type = "size" /\ child.children # << >>
                THEN validate_index(sa, child)
                ELSE IF child.type = "col_size" /\ child.children # << >>
                THEN validate_col_index(sa, child, 1)
                ELSE sa,
                node, i + 1)

\* SemanticAnalyzer._validate_array_index
validate_array_index(sa, row_size_node) ==
    validate_array_index_loop(sa, row_size_node, 1)

\* The error of check_element; from is the variable the element is, or None.
element_mismatch(sa, actual_name, expected_type, elem_type, from, loc) ==
    Analyzer_error(sa,
        "Array element type mismatch in '" \o actual_name \o "': expected '"
            \o expected_type \o "', got '" \o elem_type \o "'"
            \o (IF from = None THEN ""
                ELSE " from variable '" \o from \o "'"),
        loc[1], loc[2])

RECURSIVE check_element(_, _, _, _)
RECURSIVE check_elements(_, _, _, _, _)
\* SemanticAnalyzer._validate_array_elements, check_element
check_element(sa, n, expected_type, identifier) ==
    LET actual_name == IF truthy(identifier)
                       THEN get_actual_name(sa, identifier) ELSE "array"
    IN IF n.type \in {"output_content", "value"}
       THEN LET r == get_expression_type(sa, n)
                found == find_value_location(sa, n)
                literal == IF /\ found = <<0, 0>>
                              /\ n.type = "output_content"
                              /\ truthy(n.value)
                           THEN get_literal_location(sa, n.value) ELSE found
                loc == IF literal = <<0, 0>> /\ truthy(identifier)
                       THEN get_location(sa, identifier) ELSE literal
            IN IF /\ truthy(r.v)
                  /\ ~is_array_element_compatible(expected_type, r.v)
               THEN element_mismatch(r.sa, actual_name, expected_type, r.v,
                                     None, loc)
               ELSE r.sa
       ELSE IF n.type = "identifier" /\ truthy(n.value)
       THEN LET sym == lookup(sa, n.value)
            IN IF /\ sym # NoSymbol
                  /\ ~is_array_element_compatible(expected_type,
                                                  sym.data_type)
               THEN element_mismatch(sa, actual_name, expected_type,
                        sym.data_type, get_actual_name(sa, n.value),
                        get_location(sa, n.value))
               ELSE sa
       ELSE check_elements(sa, n, 1, expected_type, identifier)

\* check_element, the loop "for c in n.children" from child i on
check_elements(sa, n, i, expected_type, identifier) ==
    IF sa.raised \/ i > Len(n.children) THEN sa
    ELSE check_elements(
             IF is_ASTNode(n.children[i])
             THEN check_element(sa, n.children[i], expected_type, identifier)
             ELSE sa,
             n, i + 1, expected_type, identifier)

RECURSIVE validate_array_elements_loop(_, _, _, _, _)
\* SemanticAnalyzer._validate_array_elements, the loop over the array node
validate_array_elements_loop(sa, array_node, i, expected_type, identifier) ==
    IF sa.raised \/ i > Len(array_node.children) THEN sa
    ELSE LET child == array_node.children[i]
         IN validate_array_elements_loop(
                IF is_ASTNode(child) /\ child.type # "operator"
                THEN check_element(sa, child, expected_type, identifier)
                ELSE sa,
                array_node, i + 1, expected_type, identifier)

\* SemanticAnalyzer._validate_array_elements
validate_array_elements(sa, array_node, expected_type, identifier) ==
    validate_array_elements_loop(sa, array_node, 1, expected_type, identifier)

RECURSIVE visit_each(_, _, _)
\* for child in node.children: if hasattr(child, 'type'): self.visit(child)
visit_each(sa, node, i) ==
    LET child == node.children[i]
        s1 == visit(sa, child)
        n == Len(node.children)
    IN CASE i > n -> sa
         [] i <= n /\ ~is_ASTNode(child) -> visit_each(sa, node, i + 1)
         [] i = n /\ is_ASTNode(child) -> s1
         [] i < n /\ is_ASTNode(child) ->
                IF s1.raised THEN s1 ELSE visit_each(s1, node, i + 1)

\* The visit_ methods that do more than visit the children or pass.
Visitors ==
    {"program", "normal", "constant", "structure", "air_func", "return_stat",
     "return_stat_empty", "identifier_stat", "input_output", "if_stat",
     "switch_stat", "while_loop", "ctrl_flow", "expr", "id_access",
     "identifier", "return_type", "dimension"}

\* The visit_ methods that do nothing.
VisitNothing ==
    {"global_dec_empty", "sub_functions_empty", "stmt_list_empty",
     "if_tail_empty", "switch_def_empty", "stmt_ctrl_empty",
     "norm_dec_empty", "norm_tail_empty", "array_empty", "dimension_empty",
     "data_type"}

\* A child the loop of generic_visit changes nothing for: it has no type,
\* its visit_ method passes, or it has no visit_ method and no children.
passed_over(child) ==
    \/ ~is_ASTNode(child)
    \/ child.type \in VisitNothing
    \/ child.type \notin Visitors /\ child.children = << >>

RECURSIVE only_visited(_)
\* When the loop of generic_visit passes over every child but one, and
\* that one is visited by generic_visit too (or by a visit_ method with
\* the same loop), the visit of node is the visit of that child: the node
\* at the end of such a chain, whose children are the first to be visited
\* by anything else.
only_visited(node) ==
    LET visited == {i \in 1..Len(node.children) :
                       ~passed_over(node.children[i])}
        child == node.children[CHOOSE i \in visited : TRUE]
    IN IF Cardinality(visited) = 1 /\ child.type \notin Visitors
       THEN only_visited(child) ELSE node

\* SemanticAnalyzer.generic_visit
generic_visit(sa, node) == visit_each(sa, only_visited(node), 1)

RECURSIVE visit_program_loop(_, _, _)
\* SemanticAnalyzer.visit_program, from child i on
visit_program_loop(sa, node, i) ==
    LET child == node.children[i]
        n == Len(node.children)
        entered == enter_scope([sa EXCEPT !.in_atmosphere = TRUE],
                               "atmosphere")
        visited == visit(entered, child)
        s1 == CASE ~is_ASTNode(child) -> sa
                [] child.type = "body" ->
                       IF visited.raised THEN visited
                       ELSE [exit_scope(visited) EXCEPT
                                !.in_atmosphere = FALSE]
                [] OTHER -> visit(sa, child)
    IN IF sa.raised \/ i > n THEN sa
       ELSE IF i = n \/ s1.raised THEN s1
       ELSE visit_program_loop(s1, node, i + 1)

\* SemanticAnalyzer.visit_program
visit_program(sa, node) == visit_program_loop(sa, node, 1)

\* The error of a declaration whose initializer has another type.
type_mismatch(sa, init_type, data_type, identifier) ==
    LET loc == get_location(sa, identifier)
    IN Analyzer_error(sa,
           "Type mismatch: cannot assign '" \o init_type \o "' to '"
               \o data_type \o "' variable '"
               \o get_actual_name(sa, identifier) \o "'",
           loc[1], loc[2])

\* The checks visit_normal and _process_norm_tail make on the norm_dec of
\* a declared name: [sa, is_array, dimensions].
check_norm_dec(sa, norm_dec, data_type, identifier) ==
    LET first_child == norm_dec.children[1]
        second == norm_dec.children[2]
        plain == [sa |-> sa, is_array |-> FALSE, dimensions |-> << >>]
        untyped == process_node_untyped(first_child, 1)
        array == [is_array |-> TRUE,
                  dimensions |-> get_array_dimensions(first_child)]
        with_elements(sized) ==
            [sa |-> IF sized.raised \/ Len(norm_dec.children) <= 1 THEN sized
                    ELSE IF ~is_ASTNode(second)
                    THEN no_attribute(sized, second, "type")
                    ELSE IF second.type = "array" /\ second.children # << >>
                    THEN validate_array_elements(sized, second, data_type,
                                                 identifier)
                    ELSE sized] @@ array
        typed(r) ==
            IF truthy(r.v) /\ ~types_compatible(data_type, r.v)
            THEN type_mismatch(r.sa, r.v, data_type, identifier)
            ELSE r.sa
        initialized(visited) ==
            IF visited.raised THEN visited
            ELSE typed(get_expression_type(visited, second))
        step == IF ~is_ASTNode(norm_dec) THEN "norm_dec"
                ELSE IF norm_dec.type # "norm_dec" \/ norm_dec.children = << >>
                THEN "plain"
                ELSE IF ~is_ASTNode(first_child) THEN "first_child"
                ELSE IF first_child.type = "row_size"
                THEN IF untyped # << >> THEN "dimensions" ELSE "row_size"
                ELSE IF /\ first_child.type = "operator"
                        /\ first_child.value = "="
                        /\ Len(norm_dec.children) > 1
                THEN "operator"
                ELSE "plain"
    IN CASE step = "plain" -> plain
         [] step = "norm_dec" ->
                [plain EXCEPT !.sa = no_attribute(sa, norm_dec, "type")]
         [] step = "first_child" ->
                [plain EXCEPT !.sa = no_attribute(sa, first_child, "type")]
         [] step = "dimensions" ->
                [plain EXCEPT !.sa = no_attribute(sa, untyped[1], "type")]
         [] step = "row_size" ->
                with_elements(validate_array_size(sa, first_child,
                                                  identifier))
         [] step = "operator" ->
                [plain EXCEPT !.sa = initialized(generic_visit(sa, second))]

\* The declaration of one variable in visit_normal and _process_norm_tail;
\* the norm_dec is child i of the node, if there is one.
declare_variable(sa, node, i, data_type, identifier) ==
    LET loc == get_location(sa, identifier)
        reported(r) ==
            IF r.v THEN r.sa
            ELSE Analyzer_error(r.sa,
                     "Variable '" \o get_actual_name(sa, identifier)
                         \o "' is already declared in this scope",
                     loc[1], loc[2])
        declared(checked) ==
            IF checked.sa.raised THEN checked.sa
            ELSE reported(
                     declare_symbol(checked.sa, identifier, "variable",
                         data_type,
                         [is_array |-> checked.is_array,
                          array_dimensions |-> checked.dimensions]))
    IN declared(IF i <= Len(node.children)
                THEN check_norm_dec(sa, node.children[i], data_type,
                                    identifier)
                ELSE [sa |-> sa, is_array |-> FALSE, dimensions |-> << >>])

RECURSIVE process_norm_tail(_, _, _)
RECURSIVE process_norm_tail_loop(_, _, _, _)
\* SemanticAnalyzer._process_norm_tail
process_norm_tail(sa, node, data_type) ==
    IF ~is_ASTNode(node) THEN no_attribute(sa, node, "type")
    ELSE IF node.type = "norm_tail_empty" \/ node.children = << >> THEN sa
    ELSE process_norm_tail_loop(sa, node, 1, data_type)

\* SemanticAnalyzer._process_norm_tail, from child i on
process_norm_tail_loop(sa, node, i, data_type) ==
    LET child == node.children[i]
        n == Len(node.children)
        continued(s1) ==
            IF i = n \/ s1.raised THEN s1
            ELSE process_norm_tail_loop(s1, node, i + 1, data_type)
    IN IF sa.raised \/ i > n THEN sa
       ELSE continued(
                CASE ~is_ASTNode(child) -> no_attribute(sa, child, "type")
                  [] child.type = "identifier" ->
                         declare_variable(sa, node, i + 1, data_type,
                                          child.value)
                  [] child.type = "norm_tail" ->
                         process_norm_tail(sa, child, data_type)
                  [] OTHER -> sa)

\* SemanticAnalyzer.visit_normal
visit_normal(sa, node) ==
    LET first == node.children[1]
        second == node.children[2]
        data_type == IF first.type = "data_type" THEN first.value ELSE None
        identifier == IF Len(node.children) > 1 /\ second.type = "identifier"
                      THEN second.value ELSE None
        tailed(s1) ==
            IF Len(node.children) > 3 /\ ~s1.raised
            THEN process_norm_tail(s1, node.children[4], data_type)
            ELSE s1
    IN IF sa.raised \/ node.children = << >> THEN sa
       ELSE IF ~is_ASTNode(first) THEN no_attribute(sa, first, "type")
       ELSE IF Len(node.children) > 1 /\ ~is_ASTNode(second)
       THEN no_attribute(sa, second, "type")
       ELSE IF ~(truthy(data_type) /\ truthy(identifier)) THEN sa
       ELSE tailed(declare_variable(sa, node, 3, data_type, identifier))

RECURSIVE is_literal_only(_)
\* SemanticAnalyzer._is_literal_only
is_literal_only(node) ==
    LET n == Len(node.children)
        operators == {"arith_op1", "arith_op2", "rela_sym", "or_tail",
                      "and_tail", "rela_tail", "arith_tail", "term_tail"}
        has_operator ==
            \E i \in 1..n :
                /\ node.children[i].children # << >>
                /\ \/ node.children[i].type = "operator"
                   \/ node.children[i].type \in operators
    IN IF node = NoneNode THEN FALSE
       ELSE IF node.type \in {"int_literal", "float_literal", "char_literal",
                              "string_literal", "bool_literal", "value",
                              "literal"}
       THEN TRUE
       ELSE IF node.type \in {"identifier", "operator"} THEN FALSE
       ELSE IF node.type \in {"arith_expr", "arith_tail", "term", "term_tail",
                              "logic_expr", "and_expr", "or_tail", "and_tail",
                              "rela_expr", "rela_tail"}
       THEN IF n = 1 THEN is_literal_only(node.children[1])
            ELSE IF n > 1
            THEN /\ ~has_operator
                 /\ \A i \in 1..n : is_literal_only(node.children[i])
            ELSE FALSE
       ELSE IF node.type \in {"expr", "primary", "factor", "output",
                              "output_concat"}
       THEN IF n = 1 THEN is_literal_only(node.children[1]) ELSE n = 0
       ELSE IF node.type = "function_call" THEN FALSE
       ELSE IF n = 1 THEN is_literal_only(node.children[1])
       ELSE n = 0

\* The checks of _check_const_initialization on one expr child.
check_const_expr(sa, child, expected_type, const_name, display_name) ==
    LET loc == get_location(sa, const_name)
        s1 == IF is_literal_only(child) THEN sa
              ELSE Analyzer_error(sa,
                       "Constant '" \o display_name
                           \o "' must be initialized with a standalone "
                           \o "literal, not an expression",
                       loc[1], loc[2])
        r == get_expression_type(s1, child)
    IN IF truthy(r.v) /\ ~types_compatible(expected_type, r.v)
       THEN Analyzer_error(r.sa,
                "Type mismatch: cannot initialize constant '" \o display_name
                    \o "' of type '" \o expected_type \o "' with '" \o r.v
                    \o "'",
                loc[1], loc[2])
       ELSE r.sa

RECURSIVE check_const_initialization_loop(_, _, _, _, _, _)
\* SemanticAnalyzer._check_const_initialization, from child i on
check_const_initialization_loop(sa, node, i, expected_type, const_name,
                                display_name) ==
    IF sa.raised \/ i > Len(node.children) THEN sa
    ELSE check_const_initialization_loop(
             IF ~is_ASTNode(node.children[i])
             THEN no_attribute(sa, node.children[i], "type")
             ELSE IF node.children[i].type = "expr"
             THEN check_const_expr(sa, node.children[i], expected_type,
                                   const_name, display_name)
             ELSE sa,
             node, i + 1, expected_type, const_name, display_name)

\* SemanticAnalyzer._check_const_initialization
check_const_initialization(sa, node, expected_type, const_name, actual_name) ==
    check_const_initialization_loop(sa, node, 1, expected_type, const_name,
        IF truthy(actual_name) THEN actual_name
        ELSE get_actual_name(sa, const_name))

RECURSIVE collect_const_1d_values(_, _)
\* SemanticAnalyzer._collect_const_1d_values: values, with those of the node
collect_const_1d_values(node, values) ==
    IF ~is_ASTNode(node) \/ node.children = << >> THEN values
    ELSE IF node.type \in {"const_1d", "element_tail"}
    THEN LET first == node.children[1]
             with_first == IF first.type = "output" /\ first.children # << >>
                           THEN Append(values, first.children[1]) ELSE values
         IN IF Len(node.children) > 1
            THEN collect_const_1d_values(node.children[2], with_first)
            ELSE with_first
    ELSE values

RECURSIVE collect_struct_init_values(_, _, _)
\* SemanticAnalyzer._collect_struct_init_values, from child i on
collect_struct_init_values(node, i, values) ==
    IF ~is_ASTNode(node) \/ i > Len(node.children) THEN values
    ELSE LET child == node.children[i]
         IN collect_struct_init_values(node, i + 1,
                IF ~is_ASTNode(child) \/ child.type = "identifier" THEN values
                ELSE IF child.type \in {"value", "output_content", "expr"}
                THEN Append(values, child)
                ELSE collect_struct_init_values(child, 1, values))

RECURSIVE validate_struct_init_values_loop(_, _, _, _, _)
\* SemanticAnalyzer._validate_struct_init_values, from value i on
validate_struct_init_values_loop(sa, struct_def, init_values, i, var_name) ==
    IF sa.raised \/ i > Len(init_values) THEN sa
    ELSE LET val_node == init_values[i]
             expected_type == struct_def[i][2]
             r == get_expression_type(sa, val_node)
             found == find_value_location(sa, val_node)
             loc == IF found = <<0, 0>> THEN get_location(sa, var_name)
                    ELSE found
         IN validate_struct_init_values_loop(
                IF truthy(r.v) /\ ~types_compatible(expected_type, r.v)
                THEN Analyzer_error(r.sa,
                         "Type mismatch in structure '"
                             \o get_actual_name(sa, var_name)
                             \o "' initialization: member '"
                             \o get_actual_name(sa, struct_def[i][1])
                             \o "' expects '" \o expected_type \o "', got '"
                             \o r.v \o "'",
                         loc[1], loc[2])
                ELSE r.sa,
                struct_def, init_values, i + 1, var_name)

\* SemanticAnalyzer._validate_struct_init_values
validate_struct_init_values(sa, struct_type, init_values, var_name) ==
    LET struct_def == get_structure(sa, struct_type)
        loc == get_location(sa, var_name)
    IN IF struct_def = << >> THEN sa
       ELSE IF Len(init_values) # Len(struct_def)
       THEN Analyzer_error(sa,
                "Structure '" \o get_actual_name(sa, var_name)
                    \o "' initialization expects "
                    \o ToString(Len(struct_def)) \o " value(s), got "
                    \o ToString(Len(init_values)),
                loc[1], loc[2])
       ELSE validate_struct_init_values_loop(sa, struct_def, init_values, 1,
                                             var_name)

\* SemanticAnalyzer._validate_struct_init
validate_struct_init(sa, struct_tail, struct_type, var_name) ==
    LET init_values == collect_struct_init_values(struct_tail, 1, << >>)
    IN IF init_values # << >>
       THEN validate_struct_init_values(sa, struct_type, init_values, var_name)
       ELSE sa

\* The error of a structure type that is neither defined nor declared, in
\* visit_structure and _visit_struct_const.
check_structure_type(sa, struct_type) ==
    LET struct_symbol == lookup(sa, struct_type)
        loc == get_location(sa, struct_type)
    IN IF /\ get_structure(sa, struct_type) = << >>
          /\ \/ struct_symbol = NoSymbol
             \/ ~struct_symbol.is_structure
       THEN Analyzer_error(sa,
                "Undefined structure type '"
                    \o get_actual_name(sa, struct_type) \o "'",
                loc[1], loc[2])
       ELSE sa

\* SemanticAnalyzer._visit_struct_const
visit_struct_const(sa, node) ==
    IF sa.raised \/ Len(node.children) < 4 THEN sa
    ELSE LET struct_type == node.children[1].value
             var_name == node.children[2].value
             struct_def == get_structure(sa, struct_type)
             s1 == check_structure_type(sa, struct_type)
             init_values == collect_const_1d_values(node.children[4], << >>)
             actual_var == get_actual_name(sa, var_name)
             loc == get_location(sa, var_name)
             s2 == IF /\ struct_def # << >>
                      /\ Len(init_values) # Len(struct_def)
                   THEN Analyzer_error(s1,
                            "Constant structure '" \o actual_var
                                \o "' must be fully initialized: expects "
                                \o ToString(Len(struct_def))
                                \o " value(s), got "
                                \o ToString(Len(init_values)),
                            loc[1], loc[2])
                   ELSE IF init_values # << >>
                   THEN validate_struct_init_values(s1, struct_type,
                                                    init_values, var_name)
                   ELSE s1
             kwargs == [is_constant |-> TRUE, struct_type |-> struct_type]
             r == IF is_global_scope(s2)
                  THEN declare_global(s2, var_name, "struct_instance",
                                      struct_type, kwargs)
                  ELSE declare_symbol(s2, var_name, "struct_instance",
                                      struct_type, kwargs)
         IN IF ~(truthy(struct_type) /\ truthy(var_name)) THEN sa
            ELSE IF r.v THEN r.sa
            ELSE Analyzer_error(r.sa,
                     "Constant '" \o actual_var
                         \o "' is already declared in this scope",
                     loc[1], loc[2])

\* SemanticAnalyzer.visit_constant
visit_constant(sa, node) ==
    LET first_child == node.children[1]
        second == node.children[2]
        data_type == IF first_child.type = "data_type"
                     THEN first_child.value ELSE None
        identifier == IF Len(node.children) > 1 /\ second.type = "identifier"
                      THEN second.value ELSE None
        actual_name == get_actual_name(sa, identifier)
        loc == get_location(sa, identifier)
        const_dec == node.children[3]
        scanned == Len(node.children) > 2 /\ const_dec.type = "const_dec"
        initializers ==
            {i \in 1..Len(const_dec.children) :
                LET c == const_dec.children[i]
                IN \/ c.type = "operator" /\ c.value = "="
                   \/ c.type \in {"expr", "row_size"}}
        untyped == {i \in 1..Len(const_dec.children) :
                       /\ ~is_ASTNode(const_dec.children[i])
                       /\ \A j \in initializers : i < j}
        has_init == scanned /\ initializers # {}
        s1 == IF has_init THEN sa
              ELSE Analyzer_error(sa,
                       "Constant '" \o actual_name
                           \o "' must be initialized at declaration",
                       loc[1], loc[2])
        r == declare_symbol(s1, identifier, "constant", data_type,
                            [is_constant |-> TRUE])
        s2 == IF r.v THEN r.sa
              ELSE Analyzer_error(r.sa,
                       "Constant '" \o actual_name
                           \o "' is already declared in this scope",
                       loc[1], loc[2])
        step == IF sa.raised \/ node.children = << >> THEN "return"
                ELSE IF ~is_ASTNode(first_child) THEN "first_child"
                ELSE IF first_child.type = "struct_const" THEN "struct_const"
                ELSE IF Len(node.children) > 1 /\ ~is_ASTNode(second)
                THEN "second"
                ELSE IF ~(truthy(data_type) /\ truthy(identifier))
                THEN "return"
                ELSE IF Len(node.children) <= 2 THEN "declare"
                ELSE IF ~is_ASTNode(const_dec) THEN "const_dec"
                ELSE IF scanned /\ untyped # {} THEN "c"
                ELSE "initialize"
    IN CASE step = "return" -> sa
         [] step = "first_child" -> no_attribute(sa, first_child, "type")
         [] step = "struct_const" -> visit_struct_const(sa, first_child)
         [] step = "second" -> no_attribute(sa, second, "type")
         [] step = "const_dec" -> no_attribute(sa, const_dec, "type")
         [] step = "c" ->
                no_attribute(sa, const_dec.children[CHOOSE i \in untyped : TRUE],
                             "type")
         [] step = "declare" -> s2
         [] step = "initialize" ->
                check_const_initialization(s2, const_dec, data_type,
                                           identifier, actual_name)

\* members[k] = v, for the members of a structure: the pairs <<name, type>>
\* in the order in which the names were first given
put_member(members, k, v) ==
    IF \E i \in 1..Len(members) : members[i][1] = k
    THEN [i \in 1..Len(members) |->
             IF members[i][1] = k THEN <<k, v>> ELSE members[i]]
    ELSE Append(members, <<k, v>>)

RECURSIVE extract_struct_members(_, _, _)
\* SemanticAnalyzer._extract_struct_members, process_node from child i on
extract_struct_members(n, i, members) ==
    IF ~is_ASTNode(n) \/ i > Len(n.children) THEN members
    ELSE LET child == n.children[i]
         IN IF child.type = "data_type"
            THEN IF /\ i + 1 <= Len(n.children)
                    /\ n.children[i + 1].type = "identifier"
                 THEN extract_struct_members(n, i + 2,
                          put_member(members, n.children[i + 1].value,
                                     child.value))
                 ELSE extract_struct_members(n, i + 1, members)
            ELSE extract_struct_members(n, i + 1,
                     extract_struct_members(child, 1, members))

\* visit_structure, the definition of a structure type
define_structure_type(sa, identifier, struct_tail) ==
    LET members == extract_struct_members(struct_tail, 1, << >>)
        loc == get_location(sa, identifier)
        actual_name == get_actual_name(sa, identifier)
        s1 == IF members # << >> THEN sa
              ELSE Analyzer_error(sa,
                       "Structure '" \o actual_name
                           \o "' must have at least one member",
                       loc[1], loc[2])
        nested == {i \in 1..Len(members) :
                       members[i][2] \in DOMAIN sa.structures}
        first == CHOOSE i \in nested : \A j \in nested : i <= j
        r == define_structure(s1, identifier, members)
        s2 == IF r.v THEN r.sa
              ELSE Analyzer_error(r.sa,
                       "Structure '" \o actual_name \o "' is already defined",
                       loc[1], loc[2])
    IN IF nested # {}
       THEN Analyzer_error(s1,
                "Nesting prohibited: structure '" \o actual_name
                    \o "' cannot have member '"
                    \o get_actual_name(sa, members[first][1])
                    \o "' of type gust (gust cannot be defined inside "
                    \o "another gust)",
                loc[1], loc[2])
       ELSE declare_global(s2, identifier, "structure", "gust",
                [is_structure |-> TRUE, struct_members |-> members]).sa

\* visit_structure, the declaration of an instance of a structure type
declare_struct_instance(sa, struct_type, var_name, struct_tail) ==
    LET s1 == check_structure_type(sa, struct_type)
        r == declare_symbol(s1, var_name, "struct_instance", struct_type,
                            [struct_type |-> struct_type])
        loc == get_location(sa, var_name)
        s2 == IF r.v THEN r.sa
              ELSE Analyzer_error(r.sa,
                       "Variable '" \o get_actual_name(sa, var_name)
                           \o "' is already declared in this scope",
                       loc[1], loc[2])
    IN validate_struct_init(s2, struct_tail, struct_type, var_name)

\* SemanticAnalyzer.visit_structure
visit_structure(sa, node) ==
    LET head == node.children[1]
        identifier == IF head.type = "identifier" THEN head.value ELSE None
        struct_tail == node.children[2]
        first_child == struct_tail.children[1]
        step == IF sa.raised \/ node.children = << >> THEN "return"
                ELSE IF ~is_ASTNode(head) THEN "head"
                ELSE IF ~(truthy(identifier) /\ Len(node.children) > 1)
                THEN "return"
                ELSE IF ~is_ASTNode(struct_tail) THEN "struct_tail"
                ELSE IF ~(/\ struct_tail.type = "struct_tail"
                          /\ struct_tail.children # << >>)
                THEN "return"
                ELSE IF ~is_ASTNode(first_child) THEN "first_child"
                ELSE first_child.type
    IN CASE step = "head" -> no_attribute(sa, head, "type")
         [] step = "struct_tail" -> no_attribute(sa, struct_tail, "type")
         [] step = "first_child" -> no_attribute(sa, first_child, "type")
         [] step = "data_type" ->
                define_structure_type(sa, identifier, struct_tail)
         [] step = "identifier" ->
                declare_struct_instance(sa, identifier, first_child.value,
                                        struct_tail)
         [] OTHER -> sa

RECURSIVE process_params(_, _, _)
\* SemanticAnalyzer._extract_params, process_params from child i on; st
\* holds the variables of the call and the list params, and the message of
\* the exception it raised.
process_params(node, i, st) ==
    IF st.raised THEN st
    ELSE IF i > Len(node.children)
    THEN IF truthy(st.data_type) /\ truthy(st.param_name)
         THEN [st EXCEPT !.params =
                   Append(@, <<st.param_name, st.data_type, st.is_array,
                               << >> >>)]
         ELSE st
    ELSE LET child == node.children[i]
             appended == IF truthy(st.data_type) /\ truthy(st.param_name)
                         THEN Append(st.params,
                                     <<st.param_name, st.data_type,
                                       st.is_array, << >> >>)
                         ELSE st.params
             inner == process_params(child, 1,
                          [data_type |-> None, param_name |-> None,
                           is_array |-> FALSE, params |-> appended,
                           raised |-> FALSE,
     exception |-> None])
         IN IF ~is_ASTNode(child)
            THEN [st EXCEPT !.raised = TRUE,
                            !.exception = AttributeError(child, "type")]
            ELSE IF child.type = "data_type"
            THEN process_params(node, i + 1,
                                [st EXCEPT !.data_type = child.value])
            ELSE IF child.type = "identifier"
            THEN process_params(node, i + 1,
                                [st EXCEPT !.param_name = child.value])
            ELSE IF child.type = "params_dim"
            THEN process_params(node, i + 1,
                     [st EXCEPT !.is_array = @ \/ child.children # << >>])
            ELSE IF child.type = "params_tail"
            THEN process_params(node, i + 1,
                     IF truthy(st.data_type) /\ truthy(st.param_name)
                     THEN [inner EXCEPT !.data_type = None,
                                        !.param_name = None,
                                        !.is_array = FALSE]
                     ELSE [inner EXCEPT !.data_type = st.data_type,
                                        !.param_name = st.param_name,
                                        !.is_array = st.is_array])
            ELSE process_params(node, i + 1, st)

\* SemanticAnalyzer._extract_params: [v, sa]
extract_params(sa, params_node) ==
    LET st == process_params(params_node, 1,
                  [data_type |-> None, param_name |-> None,
                   is_array |-> FALSE, params |-> << >>, raised |-> FALSE,
                   exception |-> None])
    IN IF params_node.type = "params_empty" \/ params_node.children = << >>
       THEN [v |-> << >>, sa |-> sa]
       ELSE IF st.raised
       THEN [v |-> << >>, sa |-> raise(sa, st.exception)]
       ELSE [v |-> st.params, sa |-> sa]

RECURSIVE air_func_header(_, _, _)
\* SemanticAnalyzer.visit_air_func, the first loop from child i on: the
\* variables return_type, func_name and params, and the analyzer
air_func_header(node, i, h) ==
    IF h.sa.raised \/ i > Len(node.children) THEN h
    ELSE LET child == node.children[i]
             r == extract_params(h.sa, child)
         IN air_func_header(node, i + 1,
                IF ~is_ASTNode(child)
                THEN [h EXCEPT !.sa = no_attribute(@, child, "type")]
                ELSE IF child.type = "return_type"
                THEN IF truthy(child.value)
                     THEN [h EXCEPT !.return_type = child.value]
                     ELSE IF child.children = << >> THEN h
                     ELSE IF ~is_ASTNode(child.children[1])
                     THEN [h EXCEPT !.sa = no_attribute(@, child.children[1],
                                                        "type")]
                     ELSE IF child.children[1].type = "data_type"
                     THEN [h EXCEPT !.return_type = child.children[1].value]
                     ELSE h
                ELSE IF child.type = "identifier"
                THEN [h EXCEPT !.func_name = child.value]
                ELSE IF child.type = "params"
                THEN [h EXCEPT !.params = r.v, !.sa = r.sa]
                ELSE h)

RECURSIVE declare_params(_, _, _)
\* SemanticAnalyzer.visit_air_func, the loop over params from i on
declare_params(sa, params, i) ==
    IF sa.raised \/ i > Len(params) THEN sa
    ELSE declare_params(
             declare_symbol(sa, params[i][1], "variable", params[i][2],
                            [is_array |-> params[i][3],
                             array_dimensions |-> params[i][4]]).sa,
             params, i + 1)

RECURSIVE visit_air_func_body(_, _, _)
\* SemanticAnalyzer.visit_air_func, the second loop from child i on
visit_air_func_body(sa, node, i) ==
    IF sa.raised \/ i > Len(node.children) THEN sa
    ELSE visit_air_func_body(
             IF node.children[i].type \in {"body", "return_stat"}
             THEN visit(sa, node.children[i]) ELSE sa,
             node, i + 1)

\* SemanticAnalyzer.visit_air_func
visit_air_func(sa, node) ==
    LET defined(h) ==
            LET func_name == h.func_name
                return_type == IF truthy(h.return_type) THEN h.return_type
                               ELSE "vacuum"
                loc == get_location(sa, func_name)
                actual_name == get_actual_name(sa, func_name)
                restored(s5) ==
                    unless_raised(s5,
                        [s5 EXCEPT
                             !.current_function = h.sa.current_function,
                             !.current_function_return_type =
                                 h.sa.current_function_return_type,
                             !.has_return_in_current_func =
                                 h.sa.has_return_in_current_func])
                left(s3) ==
                    restored(exit_scope(
                        IF /\ s3.current_function_return_type # "vacuum"
                           /\ ~s3.has_return_in_current_func
                        THEN Analyzer_error(s3,
                                 "Function '" \o actual_name
                                     \o "' with return type '"
                                     \o s3.current_function_return_type
                                     \o "' must return a value using 'gasp'",
                                 loc[1], loc[2])
                        ELSE s3))
                entered(s1) ==
                    left(visit_air_func_body(
                             declare_params(
                                 enter_scope(
                                     [s1 EXCEPT
                                          !.current_function = func_name,
                                          !.current_function_return_type =
                                              return_type,
                                          !.has_return_in_current_func =
                                              FALSE],
                                     func_name),
                                 h.params, 1),
                             node, 1))
                declared(r) ==
                    entered(IF r.v THEN r.sa
                            ELSE Analyzer_error(r.sa,
                                     "Function '" \o actual_name
                                         \o "' is already declared",
                                     loc[1], loc[2]))
            IN IF h.sa.raised \/ ~truthy(func_name) THEN h.sa
               ELSE declared(
                        declare_global(h.sa, func_name, "function",
                            return_type,
                            [is_function |-> TRUE, params |-> h.params,
                             return_type |-> return_type]))
    IN IF sa.raised \/ node.children = << >> THEN sa
       ELSE defined(air_func_header(node, 1,
                        [return_type |-> None, func_name |-> None,
                         params |-> << >>, sa |-> sa]))

\* The name of the function a return is in, as the messages give it.
returning_function(sa) ==
    IF truthy(sa.current_function)
    THEN get_actual_name(sa, sa.current_function) ELSE "atmosphere"

\* SemanticAnalyzer._handle_empty_return
handle_empty_return(sa) ==
    LET loc == get_location(sa, "gasp")
    IN IF /\ truthy(sa.current_function_return_type)
          /\ sa.current_function_return_type # "vacuum"
       THEN Analyzer_error(sa,
                "Function '" \o returning_function(sa)
                    \o "' should return a value of type '"
                    \o sa.current_function_return_type \o "'",
                loc[1], loc[2])
       ELSE sa

\* SemanticAnalyzer.visit_return_stat, the check of one returned expr
check_returned(sa, child) ==
    LET r == get_expression_type(sa, child)
        loc == get_location(sa, "gasp")
        expected == sa.current_function_return_type
    IN IF expected = "vacuum"
       THEN Analyzer_error(r.sa,
                "Function '" \o returning_function(sa)
                    \o "' has return type 'vacuum' but returns a value",
                loc[1], loc[2])
       ELSE IF /\ truthy(r.v)
               /\ truthy(expected)
               /\ ~types_compatible(expected, r.v)
       THEN Analyzer_error(r.sa,
                "Return type mismatch in function '"
                    \o returning_function(sa) \o "': expected '" \o expected
                    \o "', got '" \o r.v \o "'",
                loc[1], loc[2])
       ELSE r.sa

RECURSIVE visit_return_stat_loop(_, _, _)
\* SemanticAnalyzer.visit_return_stat, the loop from child i on
visit_return_stat_loop(sa, node, i) ==
    IF sa.raised \/ i > Len(node.children) THEN sa
    ELSE visit_return_stat_loop(
             IF ~is_ASTNode(node.children[i])
             THEN no_attribute(sa, node.children[i], "type")
             ELSE IF node.children[i].type = "expr"
             THEN check_returned(sa, node.children[i]) ELSE sa,
             node, i + 1)

\* SemanticAnalyzer.visit_return_stat
visit_return_stat(sa, node) ==
    LET loc == get_location(sa, "gasp")
    IN IF sa.raised THEN sa
       ELSE IF node.type = "return_stat_empty" THEN handle_empty_return(sa)
       ELSE IF node.children = << >> THEN sa
       ELSE IF sa.in_atmosphere /\ sa.current_function = None
       THEN Analyzer_error(sa,
                "The 'atmosphere' function must not return any value",
                loc[1], loc[2])
       ELSE visit_return_stat_loop(
                [sa EXCEPT !.has_return_in_current_func = TRUE], node, 1)

\* The errors visit_identifier_stat and _visit_id_stat_tail report for a
\* ++ or -- on the name of the symbol sym.
check_unary(sa, sym, identifier) ==
    LET loc == get_location(sa, identifier)
        actual_name == get_actual_name(sa, identifier)
        s1 == IF sym.data_type \notin UNARY_TYPES
              THEN Analyzer_error(sa,
                       "Cannot apply increment/decrement to '" \o actual_name
                           \o "' of type '" \o sym.data_type
                           \o "' (only 'int' and 'char' allowed)",
                       loc[1], loc[2])
              ELSE sa
    IN IF sym.is_constant
       THEN Analyzer_error(s1,
                "Cannot modify constant '" \o actual_name \o "'",
                loc[1], loc[2])
       ELSE s1

\* has m as a key
has_member(struct_def, m) == \E i \in 1..Len(struct_def) : struct_def[i][1] = m

\* struct_def[m]
member_type_of(struct_def, m) ==
    struct_def[CHOOSE i \in 1..Len(struct_def) : struct_def[i][1] = m][2]

\* SemanticAnalyzer._validate_struct_member_access: [v, sa]
validate_struct_member_access(sa, struct_id, member_id) ==
    LET sym == lookup(sa, struct_id)
        struct_def == get_structure(sa, sym.struct_type)
        loc == get_location(sa, member_id)
    IN IF \/ sa.raised
          \/ struct_id = None
          \/ sym = NoSymbol
          \/ ~truthy(sym.struct_type)
          \/ struct_def = << >>
       THEN [v |-> None, sa |-> sa]
       ELSE IF ~has_member(struct_def, member_id)
       THEN [v |-> None,
             sa |-> Analyzer_error(sa,
                        "'" \o get_actual_name(sa, member_id)
                            \o "' is not a member of structure '"
                            \o get_actual_name(sa, struct_id) \o "'",
                        loc[1], loc[2])]
       ELSE [v |-> member_type_of(struct_def, member_id), sa |-> sa]

\* The last child of the node, among the first i, whose type is in types;
\* NoneNode if there is none.
RECURSIVE last_child(_, _, _)
last_child(node, i, types) ==
    IF i = 0 THEN NoneNode
    ELSE IF node.children[i].type \in types THEN node.children[i]
    ELSE last_child(node, i - 1, types)

\* The first child of the node, from child i on, whose type is in types;
\* NoneNode if there is none.
RECURSIVE first_child_of(_, _, _)
first_child_of(node, i, types) ==
    IF i > Len(node.children) THEN NoneNode
    ELSE IF node.children[i].type \in types THEN node.children[i]
    ELSE first_child_of(node, i + 1, types)

\* SemanticAnalyzer._check_assignment
check_assignment(sa, assignment_node, identifier, actual_name) ==
    LET sym == IF truthy(identifier) THEN lookup(sa, identifier)
               ELSE NoSymbol
        name == IF actual_name = None /\ truthy(identifier)
                THEN get_actual_name(sa, identifier) ELSE actual_name
        loc == get_location(sa, identifier)
        n == Len(assignment_node.children)
        s1 == IF sym.is_constant
              THEN Analyzer_error(sa,
                       "Cannot assign to constant '" \o name \o "'",
                       loc[1], loc[2])
              ELSE sa
        op_node == last_child(assignment_node, n, {"assi_op", "operator"})
        compound_op == IF op_node = NoneNode THEN None ELSE op_node.value
        s2 == IF sym.data_type \notin ARITHMETIC_TYPES
              THEN Analyzer_error(s1,
                       "Compound assignment '" \o compound_op
                           \o "' cannot be applied to '" \o name
                           \o "' of type '" \o sym.data_type \o "'",
                       loc[1], loc[2])
              ELSE s1
        s3 == IF compound_op = "%=" /\ sym.data_type # "int"
              THEN Analyzer_error(s2,
                       "Modulus assignment '%%=' requires integer type, '"
                           \o name \o "' is '" \o sym.data_type \o "'",
                       loc[1], loc[2])
              ELSE s2
        s4 == IF compound_op \in {"+=", "-=", "*=", "/=", "%="} THEN s3
              ELSE s1
        expr_node == last_child(assignment_node, n, {"expr"})
        r == get_expression_type(s4, expr_node)
    IN IF sa.raised \/ sym = NoSymbol THEN sa
       ELSE IF n = 0 THEN s1
       ELSE IF untyped_child(assignment_node) # 0
       THEN no_attribute(s1,
                assignment_node.children[untyped_child(assignment_node)],
                "type")
       ELSE IF expr_node = NoneNode THEN s4
       ELSE IF truthy(r.v) /\ ~types_compatible(sym.data_type, r.v)
       THEN Analyzer_error(r.sa,
                "Type mismatch: cannot assign '" \o r.v \o "' to '"
                    \o sym.data_type \o "' variable '" \o name \o "'",
                loc[1], loc[2])
       ELSE r.sa

RECURSIVE visit_id_stat_tail_loop(_, _, _, _, _)
\* SemanticAnalyzer._visit_id_stat_tail, from child i on; sym is the symbol
\* looked up on entry.
visit_id_stat_tail_loop(sa, node, i, identifier, sym) ==
    IF sa.raised \/ i > Len(node.children) THEN sa
    ELSE LET child == node.children[i]
         IN visit_id_stat_tail_loop(
                IF ~is_ASTNode(child) THEN no_attribute(sa, child, "type")
                ELSE IF child.type = "unary_op"
                THEN IF sym # NoSymbol THEN check_unary(sa, sym, identifier)
                     ELSE sa
                ELSE IF child.type = "assignment"
                THEN check_assignment(sa, child, identifier,
                         IF truthy(identifier)
                         THEN get_actual_name(sa, identifier) ELSE None)
                ELSE sa,
                node, i + 1, identifier, sym)

\* SemanticAnalyzer._visit_id_stat_tail
visit_id_stat_tail(sa, node, identifier) ==
    visit_id_stat_tail_loop(sa, node, 1, identifier,
        IF truthy(identifier) THEN lookup(sa, identifier) ELSE NoSymbol)

RECURSIVE visit_id_access_for_assignment(_, _, _, _)
\* SemanticAnalyzer._visit_id_access_for_assignment, from child i on
visit_id_access_for_assignment(sa, node, i, identifier) ==
    IF sa.raised \/ i > Len(node.children) THEN sa
    ELSE LET child == node.children[i]
             s1 == IF child.type = "identifier"
                   THEN validate_struct_member_access(sa, identifier,
                                                      child.value).sa
                   ELSE sa
         IN visit_id_access_for_assignment(
                IF is_ASTNode(child) THEN visit(s1, child) ELSE sa,
                node, i + 1, identifier)

\* _visit_id_stat_body, the assignment to a member of a structure
assign_member(sa, id_access_for_member, assignment_node, identifier) ==
    LET member_id_value == id_access_for_member.children[2].value
        r == validate_struct_member_access(sa, identifier, member_id_value)
        sym == lookup(r.sa, identifier)
        loc == get_location(sa, identifier)
        expr_node == first_child_of(assignment_node, 1, {"expr"})
        e == get_expression_type(r.sa, expr_node)
    IN IF \/ ~is_ASTNode(id_access_for_member.children[2])
          \/ member_id_value = ""
       THEN sa
       ELSE IF sym # NoSymbol /\ sym.is_constant
       THEN Analyzer_error(r.sa, "Content of constant gust cannot be modified",
                           loc[1], loc[2])
       ELSE IF ~truthy(r.v) \/ expr_node = NoneNode THEN r.sa
       ELSE IF truthy(e.v) /\ ~types_compatible(r.v, e.v)
       THEN Analyzer_error(e.sa,
                "Type mismatch: cannot assign '" \o e.v \o "' to member '"
                    \o get_actual_name(sa, member_id_value) \o "' of type '"
                    \o r.v \o "'",
                loc[1], loc[2])
       ELSE e.sa

RECURSIVE visit_id_stat_body_loop(_, _, _, _)
\* SemanticAnalyzer._visit_id_stat_body, the last loop from child i on
visit_id_stat_body_loop(sa, node, i, identifier) ==
    IF sa.raised \/ i > Len(node.children) THEN sa
    ELSE LET child == node.children[i]
             actual_name == IF truthy(identifier)
                            THEN get_actual_name(sa, identifier) ELSE None
         IN visit_id_stat_body_loop(
                IF child.type = "param_opts"
                THEN check_function_call(sa, identifier, child)
                ELSE IF child.type = "assignment"
                THEN check_assignment(sa, child, identifier, actual_name)
                ELSE IF child.type \in {"id_stat_tail", "identifier_stat"}
                THEN visit_id_stat_tail(sa, child, identifier)
                ELSE IF child.type = "id_access"
                THEN visit_id_access_for_assignment(sa, child, 1, identifier)
                ELSE sa,
                node, i + 1, identifier)

\* A child of an id_stat_body that is the id_access of a member: ['.', id].
is_member_access(child) ==
    /\ child.type = "id_access"
    /\ Len(child.children) >= 2
    /\ child.children[1] = ASTNode("str", << >>, ".")

\* The assignment a child of an id_stat_body is or starts with, if any.
assignment_of(child) ==
    IF child.type = "assignment" THEN child
    ELSE IF /\ child.type = "id_stat_tail"
            /\ child.children # << >>
            /\ child.children[1].type = "assignment"
    THEN child.children[1]
    ELSE NoneNode

RECURSIVE last_assignment(_, _)
\* _visit_id_stat_body: assignment_node after the first loop, looking from
\* child i back.
last_assignment(node, i) ==
    IF i = 0 THEN NoneNode
    ELSE IF ~is_member_access(node.children[i])
            /\ assignment_of(node.children[i]) # NoneNode
    THEN assignment_of(node.children[i])
    ELSE last_assignment(node, i - 1)

RECURSIVE last_member_access(_, _)
\* _visit_id_stat_body: id_access_for_member after the first loop
last_member_access(node, i) ==
    IF i = 0 THEN NoneNode
    ELSE IF is_member_access(node.children[i]) THEN node.children[i]
    ELSE last_member_access(node, i - 1)

\* SemanticAnalyzer._visit_id_stat_body
visit_id_stat_body(sa, node, identifier) ==
    LET n == Len(node.children)
        id_access_for_member == last_member_access(node, n)
        assignment_node == last_assignment(node, n)
    IN IF sa.raised \/ n = 0 THEN sa
       ELSE IF untyped_child(node) # 0
       THEN no_attribute(sa, node.children[untyped_child(node)], "type")
       ELSE IF /\ id_access_for_member # NoneNode
               /\ assignment_node # NoneNode
               /\ truthy(identifier)
       THEN assign_member(sa, id_access_for_member, assignment_node,
                          identifier)
       ELSE visit_id_stat_body_loop(sa, node, 1, identifier)

RECURSIVE visit_identifier_stat_loop(_, _, _)
\* SemanticAnalyzer.visit_identifier_stat, the loop from child i on: the
\* variables has_unary and identifier, and the analyzer
visit_identifier_stat_loop(node, i, st) ==
    IF st.sa.raised \/ i > Len(node.children) THEN st
    ELSE LET child == node.children[i]
         IN visit_identifier_stat_loop(node, i + 1,
                IF ~is_ASTNode(child)
                THEN [st EXCEPT !.sa = no_attribute(@, child, "type")]
                ELSE IF child.type = "unary_op"
                THEN [st EXCEPT !.has_unary = TRUE]
                ELSE IF child.type = "identifier"
                THEN [st EXCEPT !.identifier = child.value]
                ELSE IF child.type = "id_stat_body"
                THEN [st EXCEPT !.sa = visit_id_stat_body(@, child,
                                                          st.identifier)]
                ELSE IF child.type = "id_access"
                THEN [st EXCEPT !.sa = visit(@, child)]
                ELSE st)

\* SemanticAnalyzer.visit_identifier_stat
visit_identifier_stat(sa, node) ==
    LET checked(st) ==
            LET sym == lookup(st.sa, st.identifier)
                loc == get_location(sa, st.identifier)
            IN IF st.sa.raised \/ ~truthy(st.identifier) THEN st.sa
               ELSE IF sym = NoSymbol
               THEN Analyzer_error(st.sa,
                        "Undeclared identifier '"
                            \o get_actual_name(sa, st.identifier) \o "'",
                        loc[1], loc[2])
               ELSE IF st.has_unary
               THEN check_unary(st.sa, sym, st.identifier)
               ELSE st.sa
    IN IF sa.raised \/ node.children = << >> THEN sa
       ELSE checked(visit_identifier_stat_loop(node, 1,
                        [has_unary |-> FALSE, identifier |-> None,
                         sa |-> sa]))

RECURSIVE argument_types(_, _, _)
RECURSIVE param_item_types(_, _, _)
\* SemanticAnalyzer._get_argument_types, process_params from child i on;
\* r is [v, sa], v the list types.
argument_types(node, i, r) ==
    IF r.sa.raised \/ i > Len(node.children) THEN r
    ELSE LET child == node.children[i]
         IN IF ~is_ASTNode(child)
            THEN [r EXCEPT !.sa = no_attribute(@, child, "type")]
            ELSE argument_types(node, i + 1,
                     IF child.type = "param_item"
                     THEN param_item_types(child, 1, r)
                     ELSE IF child.type \in {"param_list", "param_tail"}
                     THEN argument_types(child, 1, r)
                     ELSE r)

\* SemanticAnalyzer._get_argument_types, the loop over a param_item
param_item_types(node, i, r) ==
    IF r.sa.raised \/ i > Len(node.children) THEN r
    ELSE LET c == node.children[i]
             e == get_expression_type(r.sa, c)
         IN IF ~is_ASTNode(c)
            THEN [r EXCEPT !.sa = no_attribute(@, c, "type")]
            ELSE param_item_types(node, i + 1,
                     IF c.type = "expr"
                     THEN [v |-> Append(r.v, e.v), sa |-> e.sa]
                     ELSE r)

\* SemanticAnalyzer._get_argument_types: [v, sa]
get_argument_types(sa, param_opts_node) ==
    IF ~is_ASTNode(param_opts_node)
    THEN [v |-> << >>, sa |-> no_attribute(sa, param_opts_node, "type")]
    ELSE IF param_opts_node.type = "param_opts_empty"
    THEN [v |-> << >>, sa |-> sa]
    ELSE argument_types(param_opts_node, 1, [v |-> << >>, sa |-> sa])

RECURSIVE check_arguments(_, _, _, _, _)
\* SemanticAnalyzer._check_function_call, the loop from argument i on
check_arguments(sa, func_name, arg_types, expected_params, i) ==
    IF sa.raised \/ i > Len(arg_types) THEN sa
    ELSE LET arg_type == arg_types[i]
             param_type == expected_params[i][2]
             loc == get_location(sa, func_name)
         IN check_arguments(
                IF /\ truthy(arg_type)
                   /\ ~types_compatible_for_params(param_type, arg_type)
                THEN Analyzer_error(sa,
                         "Argument " \o ToString(i) \o " of function '"
                             \o get_actual_name(sa, func_name)
                             \o "': expected '" \o param_type \o "', got '"
                             \o arg_type \o "'",
                         loc[1], loc[2])
                ELSE sa,
                func_name, arg_types, expected_params, i + 1)

\* SemanticAnalyzer._check_function_call
check_function_call(sa, func_name, param_opts_node) ==
    LET actual_name == get_actual_name(sa, func_name)
        loc == get_location(sa, func_name)
        sym == lookup(sa, func_name)
        r == get_argument_types(sa, param_opts_node)
        expected_params == sym.params
    IN IF sa.raised \/ ~truthy(func_name) THEN sa
       ELSE IF actual_name = "atmosphere" \/ func_name = "atmosphere"
       THEN Analyzer_error(sa,
                "'atmosphere' (main) function cannot be called",
                loc[1], loc[2])
       ELSE IF sym = NoSymbol
       THEN Analyzer_error(sa,
                "Undeclared function '" \o actual_name \o "'", loc[1], loc[2])
       ELSE IF ~sym.is_function
       THEN Analyzer_error(sa,
                "'" \o actual_name \o "' is not a function", loc[1], loc[2])
       ELSE IF Len(r.v) # Len(expected_params)
       THEN Analyzer_error(r.sa,
                "Function '" \o actual_name \o "' expects "
                    \o ToString(Len(expected_params)) \o " argument(s), got "
                    \o ToString(Len(r.v)),
                loc[1], loc[2])
       ELSE check_arguments(r.sa, func_name, r.v, expected_params, 1)

RECURSIVE validate_exhale_output(_, _)

RECURSIVE inhale_loop(_, _, _)
\* SemanticAnalyzer.visit_input_output, the loop of inhale from child i on
inhale_loop(sa, node, i) ==
    IF sa.raised \/ i > Len(node.children) THEN sa
    ELSE LET child == node.children[i]
             identifier == child.value
             actual_name == get_actual_name(sa, identifier)
             sym == lookup(sa, identifier)
             loc == get_location(sa, identifier)
         IN inhale_loop(
                IF ~(is_ASTNode(child) /\ child.type = "identifier") THEN sa
                ELSE IF sym = NoSymbol
                THEN Analyzer_error(sa,
                         "Undeclared identifier '" \o actual_name
                             \o "' in inhale statement",
                         loc[1], loc[2])
                ELSE IF sym.is_constant
                THEN Analyzer_error(sa,
                         "Cannot read into constant '" \o actual_name \o "'",
                         loc[1], loc[2])
                ELSE sa,
                node, i + 1)

RECURSIVE exhale_loop(_, _, _)
\* SemanticAnalyzer.visit_input_output, the loop of exhale from child i on
exhale_loop(sa, node, i) ==
    IF sa.raised \/ i > Len(node.children) THEN sa
    ELSE LET child == node.children[i]
             s1 == IF child.type = "output"
                   THEN validate_exhale_output(sa, child) ELSE sa
         IN exhale_loop(IF is_ASTNode(child) THEN visit(s1, child) ELSE sa,
                        node, i + 1)

\* SemanticAnalyzer.visit_input_output
visit_input_output(sa, node) ==
    LET io_type == IF node.children[1].type = "str"
                   THEN node.children[1].value ELSE None
    IN IF sa.raised \/ node.children = << >> THEN sa
       ELSE IF io_type = "inhale" THEN inhale_loop(sa, node, 2)
       ELSE IF io_type = "exhale" THEN exhale_loop(sa, node, 2)
       ELSE sa

\* SemanticAnalyzer.visit_if_stat, the check of the condition
check_condition(sa, child) ==
    LET r == get_expression_type(sa, child)
        loc == get_node_location(sa, child)
    IN IF truthy(r.v) /\ r.v \notin {"bool", "int", "float", "char"}
       THEN Analyzer_error(r.sa,
                "Condition in 'if' must evaluate to a boolean-compatible "
                    \o "type, got '" \o r.v \o "'",
                loc[1], loc[2])
       ELSE r.sa

RECURSIVE visit_if_stat_loop(_, _, _)
\* SemanticAnalyzer.visit_if_stat, from child i on
visit_if_stat_loop(sa, node, i) ==
    LET child == node.children[i]
        n == Len(node.children)
        s1 == CASE ~is_ASTNode(child) -> no_attribute(sa, child, "type")
                [] child.type = "cond_stat" -> check_condition(sa, child)
                [] child.type \in {"stmt_ctrl", "if_tail"} -> visit(sa, child)
                [] OTHER -> sa
    IN IF sa.raised \/ i > n THEN sa
       ELSE IF i = n \/ s1.raised THEN s1
       ELSE visit_if_stat_loop(s1, node, i + 1)

\* SemanticAnalyzer.visit_if_stat
visit_if_stat(sa, node) == visit_if_stat_loop(sa, node, 1)

RECURSIVE check_switch_cases(_, _)
RECURSIVE check_switch_cases_loop(_, _, _)
\* SemanticAnalyzer._check_switch_cases
check_switch_cases(sa, node) ==
    IF sa.raised \/ node.type = "switch_cases_empty" THEN sa
    ELSE check_switch_cases_loop(sa, node, 1)

\* SemanticAnalyzer._check_switch_cases, from child i on
check_switch_cases_loop(sa, node, i) ==
    LET child == node.children[i]
        n == Len(node.children)
        s1 == CASE ~is_ASTNode(child) -> no_attribute(sa, child, "type")
                [] child.type = "switch_opts" -> sa
                [] child.type = "switch_cases" -> check_switch_cases(sa, child)
                [] OTHER -> visit(sa, child)
    IN IF sa.raised \/ i > n THEN sa
       ELSE IF i = n \/ s1.raised THEN s1
       ELSE check_switch_cases_loop(s1, node, i + 1)

\* SemanticAnalyzer.visit_switch_stat, the checks of the switch variable
check_switch_var(sa, switch_var) ==
    LET sym == lookup(sa, switch_var)
        loc == get_location(sa, switch_var)
        actual_name == get_actual_name(sa, switch_var)
    IN IF sym = NoSymbol
       THEN Analyzer_error(sa,
                "Undeclared identifier '" \o actual_name
                    \o "' in stream statement",
                loc[1], loc[2])
       ELSE IF sym.data_type \notin {"int", "char"}
       THEN Analyzer_error(sa,
                "Stream (switch) variable '" \o actual_name
                    \o "' must be 'int' or 'char' type, got '"
                    \o sym.data_type \o "'",
                loc[1], loc[2])
       ELSE sa

RECURSIVE visit_switch_stat_loop(_, _, _)
\* SemanticAnalyzer.visit_switch_stat, from child i on
visit_switch_stat_loop(sa, node, i) ==
    LET child == node.children[i]
        n == Len(node.children)
        s1 == CASE ~is_ASTNode(child) -> no_attribute(sa, child, "type")
                [] child.type = "identifier" ->
                       check_switch_var(sa, child.value)
                [] child.type = "switch_cases" -> check_switch_cases(sa, child)
                [] child.type = "switch_def" -> visit(sa, child)
                [] OTHER -> sa
    IN IF sa.raised \/ i > n THEN sa
       ELSE IF i = n \/ s1.raised THEN s1
       ELSE visit_switch_stat_loop(s1, node, i + 1)

\* SemanticAnalyzer.visit_switch_stat
visit_switch_stat(sa, node) ==
    LET old_in_switch == sa.in_switch
        s1 == visit_switch_stat_loop([sa EXCEPT !.in_switch = TRUE], node, 1)
    IN IF sa.raised \/ node.children = << >> THEN sa
       ELSE IF s1.raised THEN s1
       ELSE [s1 EXCEPT !.in_switch = old_in_switch]

RECURSIVE visit_while_loop_loop(_, _, _)
\* SemanticAnalyzer.visit_while_loop, from child i on
visit_while_loop_loop(sa, node, i) ==
    LET child == node.children[i]
        n == Len(node.children)
        s1 == CASE ~is_ASTNode(child) -> no_attribute(sa, child, "type")
                [] child.type = "cond_stat" ->
                       get_expression_type(sa, child).sa
                [] OTHER -> visit(sa, child)
    IN IF sa.raised \/ i > n THEN sa
       ELSE IF i = n \/ s1.raised THEN s1
       ELSE visit_while_loop_loop(s1, node, i + 1)

\* A faulty visit_while_loop that leaves in_loop set behind the loop.
visit_while_loop_unrestored(sa, node) ==
    IF sa.raised THEN sa
    ELSE visit_while_loop_loop([sa EXCEPT !.in_loop = TRUE], node, 1)

\* SemanticAnalyzer.visit_while_loop
visit_while_loop(sa, node) ==
    LET old_in_loop == sa.in_loop
        s1 == visit_while_loop_loop([sa EXCEPT !.in_loop = TRUE], node, 1)
    IN IF sa.raised THEN sa
       ELSE IF s1.raised THEN s1
       ELSE [s1 EXCEPT !.in_loop = old_in_loop]

\* SemanticAnalyzer.visit_ctrl_flow
visit_ctrl_flow(sa, node) ==
    LET ctrl_word == node.value
        loc == get_location(sa, ctrl_word)
    IN IF sa.raised THEN sa
       ELSE IF ctrl_word = "resist" /\ ~sa.in_loop /\ ~sa.in_switch
       THEN Analyzer_error(sa,
                "'resist' (break) must be inside a loop or stream (switch)",
                loc[1], loc[2])
       ELSE IF ctrl_word = "flow" /\ ~sa.in_loop
       THEN Analyzer_error(sa, "'flow' (continue) must be inside a loop",
                           loc[1], loc[2])
       ELSE sa

RECURSIVE strip(_)
\* str.strip
strip(s) ==
    IF Len(s) > 0 /\ SubSeq(s, 1, 1) \in Whitespace
    THEN strip(SubSeq(s, 2, Len(s)))
    ELSE IF Len(s) > 0 /\ SubSeq(s, Len(s), Len(s)) \in Whitespace
    THEN strip(SubSeq(s, 1, Len(s) - 1))
    ELSE s

RECURSIVE closing_brace(_, _)
\* The index of the first "}" of s at or after i; 0 if there is none.
closing_brace(s, i) ==
    IF i > Len(s) THEN 0
    ELSE IF SubSeq(s, i, i) = "}" THEN i
    ELSE closing_brace(s, i + 1)

RECURSIVE findall_interpolations(_, _)
\* re.findall(r'@\{([^}]+)\}', s), from index i on
findall_interpolations(s, i) ==
    IF i + 1 > Len(s) THEN << >>
    ELSE LET close == closing_brace(s, i + 2)
         IN IF SubSeq(s, i, i + 1) = "@{" /\ close > i + 2
            THEN <<SubSeq(s, i + 2, close - 1)>>
                     \o findall_interpolations(s, close + 1)
            ELSE findall_interpolations(s, i + 1)

\* Some frame declares a key whose actual name is id_str.
declared_by_name(sa, id_str) ==
    \E i \in 1..Len(sa.scopes) :
        \E key \in DOMAIN sa.scopes[i] : get_actual_name(sa, key) = id_str

RECURSIVE validate_string_interpolation_loop(_, _, _, _, _)
\* SemanticAnalyzer._validate_string_interpolation, from identifier i on
validate_string_interpolation_loop(sa, string_value, node, ids, i) ==
    IF sa.raised \/ i > Len(ids) THEN sa
    ELSE LET id_str == strip(ids[i])
             found == find_value_location(sa, node)
             loc == IF found = <<0, 0>>
                    THEN get_literal_location(sa, string_value) ELSE found
         IN validate_string_interpolation_loop(
                IF id_str = "" \/ declared_by_name(sa, id_str) THEN sa
                ELSE Analyzer_error(sa,
                         "Undeclared identifier '" \o id_str
                             \o "' in string interpolation",
                         loc[1], loc[2]),
                string_value, node, ids, i + 1)

\* SemanticAnalyzer._validate_string_interpolation
validate_string_interpolation(sa, string_value, node_for_location) ==
    IF ~contains(string_value, "@{") THEN sa
    ELSE validate_string_interpolation_loop(sa, string_value,
             node_for_location, findall_interpolations(string_value, 1), 1)

\* The interpolations of the value of a node are validated if it holds a
\* double quote.
validate_quoted(sa, node) ==
    IF contains(node.value, "\"")
    THEN validate_string_interpolation(sa, node.value, node) ELSE sa

RECURSIVE collect_param_items(_, _, _)
\* SemanticAnalyzer._collect_param_items, from child i on
collect_param_items(node, i, items) ==
    IF i > Len(node.children) THEN items
    ELSE LET child == node.children[i]
         IN collect_param_items(node, i + 1,
                IF ~is_ASTNode(child) THEN items
                ELSE IF child.type = "param_item" THEN Append(items, child)
                ELSE IF child.type = "expr" /\ node.type = "param_item"
                THEN Append(items, child)
                ELSE collect_param_items(child, 1, items))

\* _validate_predefined_function: the type of one argument is checked to
\* be among the accepted ones.
check_builtin_argument(sa, param_item, accepted, message) ==
    LET r == get_expression_type(sa, param_item)
        loc == find_value_location(sa, param_item)
    IN IF truthy(r.v) /\ r.v \notin accepted
       THEN Analyzer_error(r.sa, message \o ", got '" \o r.v \o "'",
                           loc[1], loc[2])
       ELSE r.sa

\* SemanticAnalyzer._validate_predefined_function
validate_predefined_function(sa, func_name, node) ==
    LET param_items == collect_param_items(node, 1, << >>)
        n == Len(param_items)
        loc == get_node_location(sa, node)
        w1 == IF n >= 1
              THEN check_builtin_argument(sa, param_items[1],
                       {"float", "int"},
                       "'waft' first argument must be float or int")
              ELSE sa
        w2 == IF n >= 2
              THEN check_builtin_argument(w1, param_items[2], {"int"},
                       "'waft' second argument must be int")
              ELSE w1
    IN IF func_name = "waft"
       THEN IF n # 2
            THEN Analyzer_error(w2,
                     "'waft' expects exactly 2 arguments, got " \o ToString(n),
                     loc[1], loc[2])
            ELSE w2
       ELSE IF n = 0 THEN sa
       ELSE IF func_name \in {"toRise", "toFall"}
       THEN check_builtin_argument(sa, param_items[1], {"string", "char"},
                "'" \o func_name \o "' expects a string or char argument")
       ELSE IF func_name = "horizon"
       THEN check_builtin_argument(sa, param_items[1],
                {"int", "float", "string"},
                "'horizon' expects an int, float, or string argument")
       ELSE IF func_name \in {"toInt", "toFloat"}
       THEN check_builtin_argument(sa, param_items[1], {"string"},
                "'" \o func_name \o "' expects a string argument")
       ELSE IF func_name = "toChar"
       THEN check_builtin_argument(sa, param_items[1], {"int", "string"},
                "'toChar' expects an int or string argument")
       ELSE sa

\* SemanticAnalyzer._resolve_function_call_type: [v, sa]
resolve_function_call_type(sa, node) ==
    LET strings == {i \in 1..Len(node.children) :
                        node.children[i].type = "str"}
        func_name == node.children[CHOOSE i \in strings :
                                       \A j \in strings : i <= j].value
    IN IF strings = {} \/ func_name \notin BUILTIN_NAMES
       THEN [v |-> None, sa |-> sa]
       ELSE [v |-> BUILTIN_RETURN_TYPES[func_name],
             sa |-> validate_predefined_function(sa, func_name, node)]

RECURSIVE resolve_binary_type(_, _, _)
\* SemanticAnalyzer._resolve_binary_type: [v, sa]
resolve_binary_type(sa, left_type, tail_node) ==
    LET n == Len(tail_node.children)
        op == tail_node.children[1].value
        right_node == tail_node.children[2]
        r == IF n > 1 THEN get_expression_type(sa, right_node)
             ELSE [v |-> None, sa |-> sa]
        right_type == r.v
        at_tail == find_value_location(sa, tail_node)
        at_right == IF n > 1 THEN find_value_location(sa, right_node)
                    ELSE <<0, 0>>
        s1 == IF truthy(left_type) /\ left_type \notin ARITHMETIC_TYPES
              THEN Analyzer_error(r.sa,
                       "Cannot perform arithmetic on type '" \o left_type
                           \o "'",
                       at_tail[1], at_tail[2])
              ELSE r.sa
        s2 == IF truthy(right_type) /\ right_type \notin ARITHMETIC_TYPES
              THEN Analyzer_error(s1,
                       "Cannot perform arithmetic on type '" \o right_type
                           \o "'",
                       at_right[1], at_right[2])
              ELSE s1
        s3 == IF truthy(left_type) /\ left_type # "int"
              THEN Analyzer_error(s2,
                       "Modulus operator '%%' requires integer operands, "
                           \o "got '" \o left_type \o "'",
                       at_tail[1], at_tail[2])
              ELSE s2
        s4 == IF truthy(right_type) /\ right_type # "int"
              THEN Analyzer_error(s3,
                       "Modulus operator '%%' requires integer operands, "
                           \o "got '" \o right_type \o "'",
                       at_right[1], at_right[2])
              ELSE s3
        combined == IF left_type = "float" \/ right_type = "float"
                  THEN "float"
                  ELSE IF left_type = "char" \/ right_type = "char"
                  THEN "int"
                  ELSE IF truthy(left_type) THEN left_type
                  ELSE right_type
    IN IF \/ sa.raised
          \/ ~is_ASTNode(tail_node)
          \/ n = 0
          \/ tail_node.type \in {"arith_tail_empty", "term_tail_empty"}
       THEN [v |-> left_type, sa |-> sa]
       ELSE IF op = "%" THEN [v |-> "int", sa |-> s4]
       ELSE IF n > 2
       THEN resolve_binary_type(s2, combined, tail_node.children[3])
       ELSE [v |-> combined, sa |-> s2]

\* _get_expression_type of an arith_tail or a term_tail: [v, sa]
tail_type(sa, node) ==
    LET right == node.children[2]
        r == get_expression_type(sa, right)
        loc == find_value_location(sa, right)
    IN IF node.children[1].value = "%" /\ truthy(r.v) /\ r.v # "int"
       THEN [r EXCEPT !.sa =
                 Analyzer_error(@,
                     "Modulus operator '%%' requires integer operands, "
                         \o "got '" \o r.v \o "'",
                     loc[1], loc[2])]
       ELSE r

\* _get_expression_type of an identifier that has children: [v, sa]
identifier_type(sa, node) ==
    LET first == node.children[1]
        id_tail == node.children[2]
        called == check_function_call(sa, first.value, id_tail.children[1])
        sym == lookup(called, first.value)
        base == get_expression_type(sa, first)
        id_access == id_tail.children[1]
        member == validate_struct_member_access(base.sa, first.value,
                                                id_access.children[2].value)
    IN IF ~(/\ Len(node.children) >= 2
            /\ first.type = "identifier"
            /\ id_tail.type = "id_tail")
       THEN [v |-> None, sa |-> sa]
       ELSE IF /\ id_tail.children # << >>
               /\ id_tail.children[1].type = "param_opts"
       THEN [v |-> IF sym # NoSymbol /\ sym.is_function
                   THEN IF truthy(sym.return_type) THEN sym.return_type
                        ELSE "vacuum"
                   ELSE None,
             sa |-> called]
       ELSE IF ~truthy(base.v) THEN [v |-> None, sa |-> base.sa]
       ELSE IF /\ id_tail.children # << >>
               /\ id_access.type = "id_access"
               /\ Len(id_access.children) >= 2
               /\ id_access.children[1] = ASTNode("str", << >>, ".")
               /\ is_ASTNode(id_access.children[2])
       THEN IF member.v # None THEN member
            ELSE [v |-> base.v, sa |-> member.sa]
       ELSE base

RECURSIVE first_typed(_, _, _)
\* _get_expression_type, the loop of the fallback from child i on: [v, sa]
first_typed(sa, node, i) ==
    IF sa.raised \/ i > Len(node.children) THEN [v |-> None, sa |-> sa]
    ELSE LET r == get_expression_type(sa, node.children[i])
         IN IF ~is_ASTNode(node.children[i]) THEN first_typed(sa, node, i + 1)
            ELSE IF truthy(r.v) THEN r
            ELSE first_typed(r.sa, node, i + 1)

\* The node types _get_expression_type delegates to the first child.
Wrappers ==
    {"expr", "logic_expr", "and_expr", "rela_expr", "arith_expr", "term",
     "factor", "primary", "size", "pdim_size", "row_size", "literal",
     "cond_stat", "output"}

\* SemanticAnalyzer._get_expression_type: [v, sa]
Analyzer_get_expression_type(sa, node) ==
    LET kind == IF sa.raised THEN "propagating" ELSE node.type
        n == Len(node.children)
        sym == lookup(sa, node.value)
        value == node.value
        r == Analyzer_get_expression_type(sa, node.children[1])
        tail == node.children[2]
        bool_tail == [rela_expr |-> "rela_tail", logic_expr |-> "or_tail",
                      and_expr |-> "and_tail"]
        binary == kind \in {"arith_expr", "term"} /\ n > 1
        boolean == /\ kind \in DOMAIN bool_tail
                   /\ n > 1
                   /\ tail.type = bool_tail[kind]
                   /\ tail.children # << >>
    IN CASE kind \in {"propagating", "None"} -> [v |-> None, sa |-> sa]
         [] kind \in {"str", "method"} ->
                [v |-> None, sa |-> no_attribute(sa, node, "type")]
         [] kind = "value" ->
                [v |-> get_value_type(value), sa |-> validate_quoted(sa, node)]
         [] kind = "identifier" ->
                IF truthy(value) /\ n = 0
                THEN [v |-> IF sym # NoSymbol THEN sym.data_type ELSE None,
                      sa |-> sa]
                ELSE IF n >= 2 THEN identifier_type(sa, node)
                ELSE [v |-> None, sa |-> sa]
         [] kind = "output_content" ->
                [v |-> IF Len(value) >= 2 /\ SubSeq(value, 1, 1) = "'"
                       THEN "char" ELSE "string",
                 sa |-> validate_quoted(sa, node)]
         [] kind = "function_call" -> resolve_function_call_type(sa, node)
         [] kind = "output_tail" /\ n > 0 -> [v |-> "string", sa |-> sa]
         [] kind \in {"arith_tail", "term_tail"} /\ n >= 2 ->
                tail_type(sa, node)
         [] kind \in {"rela_tail", "and_tail", "or_tail"} /\ n > 0 ->
                [v |-> "bool", sa |-> sa]
         [] binary ->
                IF r.sa.raised THEN r
                ELSE resolve_binary_type(r.sa, r.v, tail)
         [] boolean -> [v |-> "bool", sa |-> r.sa]
         [] kind \in Wrappers /\ n > 0 /\ ~binary /\ ~boolean -> r
         [] OTHER -> first_typed(sa, node, 1)

\* SemanticAnalyzer._check_output_no_expression
RECURSIVE check_output_no_expression(_, _)
RECURSIVE check_output_no_expression_loop(_, _, _)
check_output_no_expression(sa, node) ==
    LET at_value == IF truthy(node.value) THEN get_location(sa, node.value)
                    ELSE <<0, 0>>
        at_exhale == get_location(sa, "exhale")
        n == Len(node.children)
    IN IF node = NoneNode THEN sa
       ELSE IF ~is_ASTNode(node) THEN no_attribute(sa, node, "type")
       ELSE IF node.type \in {"arith_op1", "arith_op2", "rela_sym"}
       THEN Analyzer_error(sa,
                "Expressions are not allowed as output in exhale; only "
                    \o "identifiers, function calls, literals, and "
                    \o "concatenation are permitted",
                at_value[1], at_value[2])
       ELSE IF node.type = "arith_tail" /\ n > 0
       THEN Analyzer_error(sa,
                "Arithmetic expressions are not allowed as output in exhale",
                at_exhale[1], at_exhale[2])
       ELSE IF node.type = "rela_tail" /\ n > 0
       THEN Analyzer_error(sa,
                "Relational expressions are not allowed as output in exhale",
                at_exhale[1], at_exhale[2])
       ELSE IF node.type \in {"or_tail", "and_tail"} /\ n > 0
       THEN Analyzer_error(sa,
                "Logical expressions are not allowed as output in exhale",
                at_exhale[1], at_exhale[2])
       ELSE check_output_no_expression_loop(sa, node, 1)

\* SemanticAnalyzer._check_output_no_expression, from child i on
check_output_no_expression_loop(sa, node, i) ==
    IF sa.raised \/ i > Len(node.children) THEN sa
    ELSE check_output_no_expression_loop(
             IF is_ASTNode(node.children[i])
             THEN check_output_no_expression(sa, node.children[i]) ELSE sa,
             node, i + 1)

\* SemanticAnalyzer._validate_exhale_output
validate_exhale_output(sa, output_node) ==
    LET r == get_expression_type(check_output_no_expression(sa, output_node),
                                 output_node)
        found == get_node_location(sa, output_node)
        loc == IF found = <<0, 0>> THEN get_location(sa, "exhale") ELSE found
    IN IF sa.raised \/ output_node.children = << >> THEN sa
       ELSE IF truthy(r.v) /\ r.v \in DOMAIN sa.structures
       THEN Analyzer_error(r.sa,
                "Must access member; whole gusts cannot be displayed",
                loc[1], loc[2])
       ELSE r.sa

\* SemanticAnalyzer.visit_id_access
visit_id_access(sa, node) ==
    LET s1 == visit_each([sa EXCEPT !.in_struct_member_access = TRUE], node, 1)
    IN IF sa.raised \/ node.children = << >> THEN sa
       ELSE IF /\ Len(node.children) >= 2
               /\ node.children[1] = ASTNode("str", << >>, ".")
       THEN [s1 EXCEPT !.in_struct_member_access = FALSE]
       ELSE visit_each(sa, node, 1)

\* SemanticAnalyzer.visit_identifier
visit_identifier(sa, node) ==
    LET loc == get_location(sa, node.value)
        s1 == IF /\ truthy(node.value)
                 /\ lookup(sa, node.value) = NoSymbol
                 /\ ~sa.in_struct_member_access
              THEN Analyzer_error(sa,
                       "Undeclared identifier '"
                           \o get_actual_name(sa, node.value) \o "'",
                       loc[1], loc[2])
              ELSE sa
    IN IF sa.raised THEN sa ELSE visit_each(s1, node, 1)

RECURSIVE visit_dimension_loop(_, _, _)
\* SemanticAnalyzer.visit_dimension, from child i on
visit_dimension_loop(sa, node, i) ==
    IF sa.raised \/ i > Len(node.children) THEN sa
    ELSE LET child == node.children[i]
             s1 == IF child.type = "row_size"
                   THEN validate_array_index(sa, child) ELSE sa
         IN visit_dimension_loop(
                IF is_ASTNode(child) THEN visit(s1, child) ELSE sa,
                node, i + 1)

\* SemanticAnalyzer.visit_dimension
visit_dimension(sa, node) == visit_dimension_loop(sa, node, 1)

\* The visit_ methods that only visit the children that are nodes.
VisitChildren ==
    {"global_dec", "sub_functions", "declaration", "body", "stmt_list",
     "statement", "conditioner", "if_tail", "switch_def", "iteration",
     "for_init", "stmt_ctrl", "cond_stat", "output", "norm_dec", "norm_tail",
     "array", "id_tail"}

\* SemanticAnalyzer.visit_return_type
visit_return_type(sa, node) ==
    IF ~truthy(node.value) /\ node.children # << >>
    THEN visit(sa, node.children[1]) ELSE sa

\* SemanticAnalyzer.visit: getattr(self, 'visit_' + node.type,
\* self.generic_visit)(node)
visit(sa, node) ==
    LET method == IF sa.raised THEN "propagating" ELSE node.type
    IN CASE method \in {"propagating", "None"} -> sa
         [] method \in {"str", "method"} -> no_attribute(sa, node, "type")
         [] method \in VisitNothing -> sa
         [] method \in VisitChildren -> generic_visit(sa, node)
         [] method = "program" -> visit_program(sa, node)
         [] method = "normal" -> visit_normal(sa, node)
         [] method = "constant" -> visit_constant(sa, node)
         [] method = "structure" -> visit_structure(sa, node)
         [] method = "air_func" -> visit_air_func(sa, node)
         [] method = "return_stat" -> visit_return_stat(sa, node)
         [] method = "return_stat_empty" -> handle_empty_return(sa)
         [] method = "identifier_stat" -> visit_identifier_stat(sa, node)
         [] method = "input_output" -> visit_input_output(sa, node)
         [] method = "if_stat" -> visit_if_stat(sa, node)
         [] method = "switch_stat" -> visit_switch_stat(sa, node)
         [] method = "while_loop" -> visit_while_loop(sa, node)
         [] method = "ctrl_flow" -> visit_ctrl_flow(sa, node)
         [] method = "expr" -> get_expression_type(sa, node).sa
         [] method = "id_access" -> visit_id_access(sa, node)
         [] method = "identifier" -> visit_identifier(sa, node)
         [] method = "return_type" -> visit_return_type(sa, node)
         [] method = "dimension" -> visit_dimension(sa, node)
         [] OTHER -> generic_visit(sa, node)

\* A call of one of the two methods that every visitor comes back to:
\* [v, sa], v what it returns.
call(method, sa, node) ==
    CASE method = "visit" -> [v |-> None, sa |-> visit(sa, node)]
      [] method = "_get_expression_type" ->
             Analyzer_get_expression_type(sa, node)

\* A faulty analyze without the try block: what a visitor raises goes on.
Analyzer_analyze_uncaught(sa) ==
    LET s1 == call("visit", sa, sa.ast).sa
    IN [v |-> s1.errors \o s1.warnings, sa |-> s1]

\* SemanticAnalyzer.analyze: [v, sa], v the list it returns
Analyzer_analyze(sa) ==
    LET listed(s2) == [v |-> s2.errors \o s2.warnings, sa |-> s2]
        caught(s1) ==
            listed(IF ~s1.raised THEN s1
                     ELSE [s1 EXCEPT
                              !.errors = Append(@,
                                  SemanticError("Semantic analysis error: "
                                                    \o s1.exception, 0, 0)),
                              !.raised = FALSE])
        s3 == Analyzer_error(sa, "No AST to analyze", 0, 0)
    IN IF sa.ast = NoneNode THEN [v |-> s3.errors, sa |-> s3]
       ELSE caught(call("visit", sa, sa.ast).sa)

\* analyze(ast, tokens), the function of the module
analyze(ast, toks) == Analyzer_analyze(SemanticAnalyzer(ast, toks))

(***************************************************************************)
(* The three stages in order, as the route /parse of app.py runs the first *)
(* two: the lexer on a program text, the parser on its tokens when none is *)
(* an error, and analyze on the AST and the tokens once parse has returned.*)
(***************************************************************************)
\* The characters of a text.
chars(text) == [i \in 1..Len(text) |-> SubSeq(text, i, i)]

\* The program the three stages accept.
SmokeProgram == "universal int x~ atmosphere() { x = 5~ }"

\* Texts the lexer rejects, cut short or not a program: a stage stops them.
RejectedPrograms ==
    {"atmosphere() { int x = #~ }",
     "atmosphere() { int _a~ }",
     "atmosphere() {",
     "int x~",
     "atmosphere() { int x~ x~ }",
     "air vacuum f() { x~ } atmosphere() { }",
     "atmosphere() { int x = -x~ }",
     "atmosphere() { int 5~ }",
     "atmosphere() { int x = 1 - -2~ x = x-1~ x = 3 -x~ }"}

\* Programs with a function of two parameters, which _extract_params
\* cannot read.
RaisingPrograms ==
    {"air vacuum f(int a, int b) { } atmosphere() { }",
     "universal int a~ universal int a~ "
         \o "air vacuum f(int a, int b) { } atmosphere() { }"}

\* Declarations of a name the innermost frame of the scope stack holds.
SameFramePrograms ==
    {"atmosphere() { int x~ int x~ }",
     "universal int x~ universal wind int x = 1~ atmosphere() { }",
     "universal wind int x = 1~ universal int x~ atmosphere() { }",
     "air vacuum f(int a) { int a~ } atmosphere() { }",
     "universal int f~ air vacuum f() { } atmosphere() { }",
     "air vacuum f() { } air vacuum f() { } atmosphere() { }",
     "universal gust S { int m~ }~ universal int S~ atmosphere() { }",
     "universal gust S { int m~ }~ universal gust S { int m~ }~ "
         \o "atmosphere() { }",
     "universal gust S { int m~ }~ atmosphere() { int t~ gust S t~ }",
     "universal gust S { int m~ }~ atmosphere() { gust S t~ int t~ }",
     "universal int S~ universal gust S { int m~ }~ atmosphere() { }"}

\* Declarations of a name that only an outer frame holds.
OuterFramePrograms ==
    {"universal int x~ atmosphere() { int x~ }",
     "universal int a~ air vacuum f(int a) { } atmosphere() { }",
     "universal wind int x = 1~ atmosphere() { wind int x = 2~ }",
     "universal gust S { int m~ }~ atmosphere() { int S~ }"}

\* Uses of the name y, which the program declares nowhere.
UndeclaredPrograms ==
    {"atmosphere() { int x = y~ }",
     "atmosphere() { int x~ x = y~ }",
     "atmosphere() { if (y < 1) { } }",
     "atmosphere() { cycle (y < 1) { } }",
     "air vacuum f(int a) { } atmosphere() { f(y)~ }",
     "atmosphere() { exhale(y)~ }"}

\* A literal of each data type.
Literals ==
    [int |-> "1", float |-> "1.5", char |-> "'c'", string |-> "\"a\"",
     bool |-> "yuh"]

\* The call f(argument) of a function declared with the parameters, both
\* texts; "" is no parameter and no argument.
call_of(parameters, argument) ==
    "air vacuum f(" \o parameters \o ") { } atmosphere() { f(" \o argument
        \o ")~ }"

\* Calls of the user function f, of no parameter or of one int parameter,
\* with no argument or with a literal.
CallPrograms ==
    {call_of(parameters, argument) :
        parameters \in {"", "int a"},
        argument \in {"", Literals.int, Literals.float, Literals.char}}

\* Calls of built-in functions.
BuiltinPrograms ==
    {"atmosphere() { int x = toString(5)~ }",
     "atmosphere() { string s = toString(5)~ }",
     "atmosphere() { string s = toRise(5)~ }",
     "atmosphere() { float x = waft(1.5)~ }",
     "atmosphere() { float x = waft(1.5, 2)~ }",
     "atmosphere() { string s = waft(1.5, 2)~ }"}

\* The declaration of x as a target_type with a literal of source_type,
declared_with(target_type, source_type) ==
    "atmosphere() { " \o target_type \o " x = " \o Literals[source_type]
        \o "~ }"

\* and the assignment of that literal to x once declared.
assigned_with(target_type, source_type) ==
    "atmosphere() { " \o target_type \o " x~ x = " \o Literals[source_type]
        \o "~ }"

TypePrograms ==
    {declared_with(t, s) : t \in DataTypes, s \in DataTypes}
        \union {assigned_with(t, s) : t \in DataTypes, s \in DataTypes}

\* resist and flow under loops, stream statements and if blocks.
ControlPrograms ==
    {"universal int i~ atmosphere() { if (i < 2) { resist~ } }",
     "universal int i~ atmosphere() { if (i < 2) { flow~ } }",
     "universal int i~ atmosphere() { cycle (i < 3) { resist~ } }",
     "universal int i~ atmosphere() { cycle (i < 3) { flow~ } }",
     "universal int i~ atmosphere() { do { resist~ } cycle (i < 3)~ }",
     "universal int i~ atmosphere() { do { flow~ } cycle (i < 3)~ }",
     "universal int i~ atmosphere() { stream (i) { case 1: resist~ } }",
     "universal int i~ atmosphere() "
         \o "{ stream (i) { case 1: if (i < 2) { resist~ } resist~ } }",
     "universal int i~ atmosphere() "
         \o "{ stream (i) { case 1: if (i < 2) { flow~ } resist~ } }",
     "universal int i~ atmosphere() "
         \o "{ cycle (i < 3) { } if (i < 2) { resist~ } }",
     "universal int i~ atmosphere() "
         \o "{ if (i < 2) { cycle (i < 3) { flow~ } resist~ } }",
     "universal int i~ atmosphere() "
         \o "{ if (i < 2) { stream (i) { case 1: resist~ } resist~ } }",
     "universal int i~ atmosphere() "
         \o "{ cycle (i < 3) { stream (i) { case 1: resist~ } flow~ } }",
     "universal int i~ atmosphere() "
         \o "{ cycle (i < 3) { if (i < 2) { flow~ } } }",
     "universal int i~ atmosphere() { stream (i) { case 1: "
         \o "cycle (i < 3) { } if (i < 2) { resist~ flow~ } resist~ } }"}

\* Accesses of the members of t, an instance of the structure S with the
\* one member m.
MemberPrograms ==
    {"universal gust S { int m~ }~ atmosphere() { gust S t~ t.t = 1~ }",
     "universal gust S { int m~ }~ atmosphere() { gust S t~ int m = t.t~ }",
     "universal gust S { int m~ }~ atmosphere() "
         \o "{ gust S t~ bool m = 1 > t.t~ }",
     "universal gust S { int m~ }~ atmosphere() { gust S t~ exhale(t.t)~ }",
     "universal gust S { int m~ }~ atmosphere() { gust S t~ exhale(t.m)~ }",
     "universal gust S { int m~ }~ atmosphere() { gust S t~ int S = t.m~ }",
     "universal gust S { int m~ }~ atmosphere() { gust S t~ t.m = 1~ }",
     "universal gust S { int m~ }~ atmosphere() "
         \o "{ wind gust S t = {1}~ t.m = 2~ }"}

\* The declaration of x as a target_type with left % right, two literals.
modulus_of(target_type, left_type, right_type) ==
    "atmosphere() { " \o target_type \o " x = " \o Literals[left_type]
        \o " % " \o Literals[right_type] \o "~ }"

\* Operands of % of type int and of other types, and a target of type
\* string, which shows the type of the expression in the mismatch it reports.
ModulusPrograms ==
    {modulus_of(target_type, operands[1], operands[2]) :
        target_type \in {"int", "string"},
        operands \in {<<"int", "int">>, <<"float", "int">>,
                      <<"int", "char">>}}

\* Calls of a function from its own body, from the body of a function that
\* the source defines before or after it, and of a function defined nowhere.
CallOrderPrograms ==
    {"air vacuum f() { f()~ } atmosphere() { }",
     "air vacuum f() { g()~ } air vacuum g() { } atmosphere() { }",
     "air vacuum g() { } air vacuum f() { g()~ } atmosphere() { }",
     "air vacuum f() { h()~ } atmosphere() { }"}

\* The definition of a function f with the parameters, a text.
defined_with(parameters) ==
    "air vacuum f(" \o parameters \o ") { } atmosphere() { }"

\* Parameter lists of the grammar, each with the number of its parameters:
\* a parameter is `type id`, `type id[]` or `type id[size][size]`.
ParameterLists ==
    {<<"int a", 1>>, <<"int a[]", 1>>, <<"int a[2][2]", 1>>,
     <<"int a, int b", 2>>, <<"int a[], int b", 2>>, <<"int a, int b[]", 2>>,
     <<"int a, int b, int c", 3>>}

\* Functions of one, two and three parameters, with and without dimensions.
ParameterPrograms == {defined_with(list[1]) : list \in ParameterLists}

\* The assignment t.m = source, a literal, where the structure S of t
\* declares m of the member_type.
member_assigned(member_type, source_type) ==
    "universal gust S { " \o member_type \o " m~ }~ atmosphere() "
        \o "{ gust S t~ t.m = " \o Literals[source_type] \o "~ }"

MemberAssignPrograms ==
    {member_assigned(member_type, source_type) :
        member_type \in {"int", "string"}, source_type \in {"int", "string"}}

\* Programs cut before the body of atmosphere, whole, and followed by more.
TrailingPrograms ==
    {"atmosphere",
     "atmosphere()",
     "int",
     "universal int x~",
     "atmosphere() { }",
     "atmosphere() { } int",
     "atmosphere() { } }",
     "atmosphere() { } atmosphere() { }",
     "universal int x~ atmosphere() { } universal int x~"}

ExamplePrograms ==
    {SmokeProgram} \union RejectedPrograms \union RaisingPrograms
        \union SameFramePrograms \union OuterFramePrograms
        \union UndeclaredPrograms \union CallPrograms
        \union BuiltinPrograms \union TypePrograms
        \union ControlPrograms \union MemberPrograms
        \union ModulusPrograms \union CallOrderPrograms
        \union ParameterPrograms \union MemberAssignPrograms
        \union TrailingPrograms

ProgramTexts == {chars(text) : text \in ExamplePrograms}

InitPipeline ==
    /\ source_code \in ProgramTexts
    /\ position = 0
    /\ line = 1
    /\ column = 1
    /\ tokens = << >>
    /\ id_counter = 0
    /\ id_map = << >>
    /\ lexer2 = Lexer(source_code)
    /\ pc = "tokenize"
    /\ ParserIdle
    /\ semantic = NotAnalyzed

\* app.py, parse: the tokens that are errors
lexical_errors == SelectSeq(tokens, LAMBDA t : t.is_error)

\* app.py, parse: without a lexical error a Parser is made of the tokens.
Construct ==
    /\ pc = "returned"
    /\ control = "idle"
    /\ lexical_errors = << >>
    /\ parser' = Parser(SelectSeq(tokens, LAMBDA t : ~t.is_error))
    /\ control' = "constructed"
    /\ UNCHANGED <<frames, result, history, lexer_state, semantic>>

\* analyze(ast, tokens) on what parse returned and the tokens of the lexer
Analyze ==
    /\ control = "done"
    /\ ~semantic.called
    /\ \E r \in {analyze(result.ast, tokens)} :
           semantic' = [called |-> TRUE, analyzer |-> r.sa, errors |-> r.v]
    /\ UNCHANGED <<parservars, lexer_state>>

\* str(child) of a child of a node that is no ASTNode; the address in the
\* text of a bound method is left out.
str_of(child) ==
    CASE child.type = "str" -> child.value
      [] child.type = "None" -> "None"
      [] child.type = "method" -> "<bound method Parser." \o child.value \o ">"

RECURSIVE ASTNode_to_dict(_)
\* ASTNode.to_dict: the type, the value unless it is empty, the children
\* unless there are none
ASTNode_to_dict(node) ==
    LET children ==
            [i \in 1..Len(node.children) |->
                IF is_ASTNode(node.children[i])
                THEN ASTNode_to_dict(node.children[i])
                ELSE str_of(node.children[i])]
        with_value(d) ==
            IF truthy(node.value) THEN put(d, "value", node.value) ELSE d
        with_children(d) ==
            IF node.children # << >> THEN put(d, "children", children) ELSE d
    IN with_children(with_value([type |-> node.type]))

\* app.py, parse: the route has returned its response.
responded ==
    pc = "returned" /\ (lexical_errors # << >> \/ control = "done")

\* app.py, parse: the response of the route, which stops at the lexical
\* errors, else reports the errors of parse(), else success and the AST.
parse_response ==
    IF lexical_errors # << >>
    THEN [success |-> FALSE,
          error |-> "Cannot parse: Lexical Impostors must be ejected first.",
          all_tokens |-> tokens,
          lexical_errors |-> lexical_errors,
          syntax_errors |-> << >>]
    ELSE IF result.errors # << >>
    THEN [success |-> FALSE,
          all_tokens |-> tokens,
          lexical_errors |-> << >>,
          syntax_errors |-> result.errors]
    ELSE [success |-> TRUE,
          message |-> "Parsing successful!",
          all_tokens |-> tokens,
          lexical_errors |-> << >>,
          syntax_errors |-> << >>,
          ast |-> IF result.ast # NoneNode THEN ASTNode_to_dict(result.ast)
                  ELSE None]

NextPipeline ==
    \/ SkipWhitespace
    \/ MinusOperator
    \/ MinusNumber
    \/ MinusSign
    \/ ScanString
    \/ ScanChar
    \/ ScanNumber
    \/ ScanKeyword
    \/ ScanIdentifier
    \/ ScanOperator
    \/ ScanInvalidIdentifier
    \/ ScanUnknown
    \/ Return
    \/ Construct
    \/ Parse
    \/ Call
    \/ Match
    \/ MatchFails
    \/ CheckId
    \/ CheckIdFails
    \/ Error
    \/ Raise
    \/ Guard
    \/ Push
    \/ ReturnNode
    \/ ReturnNone
    \/ Unwind
    \/ Catch
    \/ ParseReturns
    \/ Analyze

SpecPipeline == InitPipeline /\ [][NextPipeline]_vars


(***************************************************************************)
(* Properties of the lexer.                                                *)
(***************************************************************************)
IsPrefix(s, t) == Len(s) <= Len(t) /\ SubSeq(t, 1, Len(s)) = s

Range(f) == {f[i] : i \in DOMAIN f}

at_loop_head == pc = "tokenize" /\ position < Len(source_code)

\* A td_* routine that returns True has consumed at least one character;
\* one that returns False has restored position, line and column.
routine_contract(routine, lx) ==
    LET res == run(routine, lx)
    IN  IF res.ok
        THEN res.lx.position > lx.position
        ELSE /\ res.lx.position = lx.position
             /\ res.lx.line = lx.line
             /\ res.lx.column = lx.column

\* C1: tokenize terminates and returns without raising.  At every head of
\* the main loop each td_* routine keeps its contract (True: at least one
\* character consumed; False: position, line and column restored), the
\* iteration strictly increases position without passing the end of the
\* text and only appends to the token list, and tokenize returns only when
\* position equals the length of the text.
C1_TokenizeTerminates ==
    /\ position <= Len(source_code)
    /\ (pc # "tokenize" => position = Len(source_code))
    /\ at_loop_head =>
          /\ \A routine \in Range(Chain) : routine_contract(routine, self)
          /\ \E took \in {iteration(self)} :
                /\ took.lx.position > position
                /\ took.lx.position <= Len(source_code)
                /\ took.lx.source_code = source_code
                /\ IsPrefix(tokens, took.lx.tokens)
                /\ \A i \in (Len(tokens) + 1)..Len(took.lx.tokens) :
                      took.lx.tokens[i].is_error
                          = (took.lx.tokens[i].type = "ERROR")

\* tokenize has returned a list in which a lexical problem became an ERROR
\* token and scanning went on to a further token.
C1_Witness ==
    /\ pc = "returned"
    /\ position = Len(source_code)
    /\ \E i \in 1..(Len(tokens) - 1) :
          tokens[i].is_error /\ ~tokens[i + 1].is_error

\* Every keyword of the language, as its characters.
KeywordChars ==
    {k.chars : k \in KeywordTrie} \cup {else_chars, else_chars \o <<"i", "f">>}

KeywordNames == {k.name : k \in KeywordTrie} \cup {"else", "elseif"}

\* The tokens one iteration from lx appends.
appended(lx, after) == SubSeq(after.tokens, Len(lx.tokens) + 1, Len(after.tokens))

\* C2: when a keyword K at the head of the loop is immediately followed by
\* an alphanumeric character or an underscore (and K is not "else" leading
\* into "elseif"), td_keyword emits neither a keyword token nor an error
\* token, restores position, line and column, and the iteration scans the
\* whole alphanumeric/underscore run with td_identifier.
C2_KeywordPrefixIsIdentifier ==
    at_loop_head =>
        \A k \in KeywordChars :
            (/\ starts_with(self, k)
             /\ isident(peek(self, Len(k)))
             /\ ~(k = else_chars /\ starts_with(self, else_chars \o <<"i", "f">>)))
            => /\ td_keyword(self) = Ret(FALSE, self)
               /\ \E took \in {iteration(self)} :
                     /\ took.routine = "td_identifier"
                     /\ took.lx.position
                            = while_end(source_code, position, isident)
                     /\ \A i \in DOMAIN appended(self, took.lx) :
                           appended(self, took.lx)[i].type \notin KeywordNames

\* The nearest non-whitespace character before the current position is
\* alphanumeric or a closing bracket.
operand_before ==
    \E p \in 0..(position - 1) :
        /\ \A q \in (p + 1)..(position - 1) : isspace(source_code[q + 1])
        /\ isalnum(source_code[p + 1]) \/ source_code[p + 1] \in {")", "]", "}"}

\* C3: at a '-' immediately followed by a digit, if the nearest preceding
\* non-whitespace character is alphanumeric or a closing bracket the
\* iteration emits the token '-' alone and the next iteration scans the digit
\* run as a literal of its own; otherwise the iteration is td_number, which
\* consumes '-' together with the digits, emits no '-' token, and any
\* literal it emits carries the sign.  So x-1 gives identifier, '-',
\* int_lit 1 and (-1) gives '(', int_lit -1, ')'.
C3_MinusDisambiguation ==
    /\ (at_loop_head /\ peek(self, 0) = "-" /\ isdigit(peek(self, 1))) =>
          \E took \in {iteration(self)} :
              IF operand_before
              THEN /\ took.routine = "td_operator_structure"
                   /\ took.lx.position = position + 1
                   /\ took.lx.tokens = Append(tokens, Token("-", "-", line, column))
                   /\ \E lit \in {iteration(took.lx)} :
                         /\ lit.routine = "td_number"
                         /\ \A i \in DOMAIN appended(took.lx, lit.lx) :
                               appended(took.lx, lit.lx)[i].type
                                   \in {"int_lit", "float_lit"}
                               => appended(took.lx, lit.lx)[i].value
                                      = lexeme(source_code, position + 1,
                                               lit.lx.position)
              ELSE /\ took.routine = "td_number"
                   /\ took.lx.position >= position + 2
                   /\ Len(took.lx.tokens) > Len(tokens)
                   /\ \A i \in DOMAIN appended(self, took.lx) :
                         /\ appended(self, took.lx)[i].type # "-"
                         /\ appended(self, took.lx)[i].type
                                \in {"int_lit", "float_lit"}
                            => appended(self, took.lx)[i].value
                                   = lexeme(source_code, position,
                                            took.lx.position)
    /\ (pc = "returned" /\ source_code = <<"x", "-", "1">>) =>
          tokens = <<Token("id1", "x", 1, 1), Token("-", "-", 1, 2),
                     Token("int_lit", "1", 1, 3)>>
    /\ (pc = "returned" /\ source_code = <<"(", "-", "1", ")">>) =>
          /\ Len(tokens) = 3
          /\ tokens[1].type = "(" /\ tokens[3].type = ")"
          /\ tokens[2].type = "int_lit" /\ tokens[2].value = "-1"

\* The text x-1 has been tokenized, or a '-' after a closing bracket has
\* been emitted as an operator before a digit.
C3_Witness ==
    /\ pc = "returned"
    /\ \/ source_code = <<"x", "-", "1">>
       \/ /\ Len(source_code) >= 3
          /\ source_code[1] = ")" /\ source_code[2] = "-"
          /\ isdigit(source_code[3])
          /\ \E i \in DOMAIN tokens : tokens[i].type = "-"

\* The tokens that are all ERROR tokens, at least one of them.
rejected(toks) ==
    Len(toks) >= 1 /\ \A i \in DOMAIN toks : toks[i].type = "ERROR"

\* C4: when td_number scans a literal (an optional sign, n digits, and
\* possibly a run of digits and dots), it appends only ERROR tokens, at
\* least one, when the literal is an integer of more than 10 digits, has
\* more than one dot, ends in a dot with no digit after it, or is a float
\* with more than 10 integer digits or more than 6 fractional digits; a
\* literal within the bounds that is followed by a valid delimiter is
\* appended as exactly one int_lit or float_lit token holding the whole
\* lexeme.  The sign is not counted among the digits.
C4_NumberBounds ==
    at_loop_head =>
        \E took \in {iteration(self)} :
            took.routine = "td_number" =>
                LET first == IF peek(self, 0) = "-" THEN position + 1
                             ELSE position
                    int_end == while_end(source_code, first, isdigit)
                    seq_end == IF char_at(source_code, int_end) = "."
                               THEN while_end(source_code, int_end, digit_or_dot)
                               ELSE int_end
                    n == int_end - first
                    dot_total == Cardinality({q \in int_end..(seq_end - 1) :
                                                source_code[q + 1] = "."})
                    m == seq_end - int_end - 1
                    new == appended(self, took.lx)
                    one(type) ==
                        new = <<Token(type,
                                      lexeme(source_code, position, seq_end),
                                      line, column)>>
                IN  /\ (dot_total = 0 /\ n > 10) => rejected(new)
                    /\ dot_total > 1 => rejected(new)
                    /\ (dot_total = 1 /\ m = 0) => rejected(new)
                    /\ (dot_total = 1 /\ (n > 10 \/ m > 6)) => rejected(new)
                    /\ (dot_total = 0 /\ n <= 10
                            /\ num_dlm(char_at(source_code, seq_end)))
                       => one("int_lit")
                    /\ (dot_total = 1 /\ m >= 1 /\ n <= 10 /\ m <= 6
                            /\ num_dlm(char_at(source_code, seq_end)))
                       => one("float_lit")

\* A signed literal of exactly 10 digits and 6 fractional digits has been
\* accepted as a float_lit.
C4_Witness ==
    \E i \in DOMAIN tokens :
        /\ tokens[i].type = "float_lit"
        /\ tokens[i].value = "-7777777777.333333"

\* The identifier tags.
IdTags == {"id" \o ToString(n) : n \in 1..(MaxNames + 2)}

is_identifier(token) == token.type \in IdTags

\* The first identifier token of a list, if any, has the tag id1.
first_is_id1(toks) ==
    \A i \in DOMAIN toks :
        (is_identifier(toks[i]) /\ \A j \in 1..(i - 1) : ~is_identifier(toks[j]))
        => toks[i].type = "id1"

names_emitted(n) ==
    {tokens[i].value : i \in {j \in 1..n : is_identifier(tokens[j])}}

\* C6: at every point of a run id_map is an injective map from the names of
\* the identifier tokens emitted so far onto the tags id1..idN with
\* N = id_counter = the number of those names; an identifier token has the
\* name as its value and the name's tag as its type; and a name's tag is
\* its rank in order of first emission.
C6_IdMapInjective ==
    /\ DOMAIN id_map = names_emitted(Len(tokens))
    /\ id_counter = Cardinality(DOMAIN id_map)
    /\ {id_map[name] : name \in DOMAIN id_map}
           = {"id" \o ToString(n) : n \in 1..id_counter}
    /\ \A a, b \in DOMAIN id_map : id_map[a] = id_map[b] => a = b
    /\ \A i \in DOMAIN tokens :
          is_identifier(tokens[i]) =>
              /\ tokens[i].value \in DOMAIN id_map
              /\ tokens[i].type = id_map[tokens[i].value]
              /\ tokens[i].type
                     = "id" \o ToString(Cardinality(names_emitted(i)))
                 \/ tokens[i].value \in names_emitted(i - 1)

\* Three identifier tokens of two names: the second name repeats.
C6_Witness ==
    /\ Len(tokens) = 3
    /\ tokens[1].type = "id1" /\ tokens[2].type = "id2"
    /\ tokens[3].type = "id2"

\* The follow-delimiter test of each operator and punctuation symbol.
follows(sym, c) ==
    CASE sym \in {"+", "*", "/", "%"} -> arith_dlm(c)
      [] sym = "-" -> sub_dlm(c)
      [] sym \in {"++", "--"} -> unary_dlm(c)
      [] sym \in {"+=", "-=", "*=", "/=", "%="} -> ass_dlm(c)
      [] sym = "(" -> openpare_dlm(c)
      [] sym = ")" -> closepare_dlm(c)
      [] sym = "{" -> opencurl_dlm(c)
      [] sym = "}" -> closecurl_dlm(c)
      [] sym = "[" -> opensqua_dlm(c)
      [] sym = "]" -> closesqua_dlm(c)
      [] sym \in {">", "<", ">=", "<="} -> rel_dlm(c)
      [] sym = "=" -> equal_dlm(c)
      [] sym \in {"==", "!="} -> eqto_dlm(c)
      [] sym = "!" -> not_dlm(c)
      [] sym = "&" -> amper_dlm(c)
      [] sym \in {"&&", "||"} -> log_dlm(c)
      [] sym = ":" -> colon_dlm(c)
      [] sym = "." -> isalpha(c)
      [] sym = "~" -> term_dlm(c)
      [] sym = "," -> comma_dlm(c)

SymbolNames ==
    {"+", "-", "*", "/", "%", "++", "--", "+=", "-=", "*=", "/=", "%=", "(",
     ")", "{", "}", "[", "]", ">", "<", ">=", "<=", "=", "==", "!=", "!",
     "&", "&&", "||", ":", ".", "~", ","}

\* C7: an iteration handled by td_operator_structure appends at most one
\* token.  If it is the token of a symbol, the symbol is the lexeme just
\* consumed and the character after it satisfies the symbol's follow test
\* (which, '.' apart, the end of input satisfies); otherwise it is an ERROR
\* token and no symbol token is appended.  No other routine appends the
\* token of a symbol.
C7_SymbolFollowSet ==
    at_loop_head =>
        \E took \in {iteration(self)} :
            LET new == appended(self, took.lx)
            IN  IF took.routine = "td_operator_structure"
                THEN /\ Len(new) <= 1
                     /\ \A i \in DOMAIN new :
                           \/ new[i].type = "ERROR"
                           \/ /\ new[i].type \in SymbolNames
                              /\ new[i].value = new[i].type
                              /\ \E n \in 1..2 :
                                    /\ took.lx.position = position + n
                                    /\ lexeme(source_code, position,
                                              position + n) = new[i].type
                              /\ follows(new[i].type, peek(took.lx, 0))
                ELSE \A i \in DOMAIN new : new[i].type \notin SymbolNames

\* The text ==) has been tokenized: == before a character outside its
\* follow set gave an ERROR, and ) at the end of input was emitted.
C7_Witness ==
    /\ pc = "returned"
    /\ source_code = <<"=", "=", ")">>
    /\ Len(tokens) = 2
    /\ tokens[1].type = "ERROR"
    /\ tokens[2].type = ")"

\* Where the string literal opened before position from closes when a
\* backslash escapes the character after it: the position of the first
\* unescaped double quote, or the length of the text when there is none.
RECURSIVE closing_quote(_, _)
closing_quote(text, from) ==
    IF from >= Len(text) THEN Len(text)
    ELSE IF text[from + 1] = "\\" THEN closing_quote(text, from + 2)
    ELSE IF text[from + 1] = "\"" THEN from
    ELSE closing_quote(text, from + 1)

\* The characters escaped by a backslash in that literal.
RECURSIVE escaped(_, _)
escaped(text, from) ==
    IF from >= Len(text) THEN {}
    ELSE IF text[from + 1] = "\\"
    THEN {char_at(text, from + 1)} \cup escaped(text, from + 2)
    ELSE IF text[from + 1] = "\"" THEN {}
    ELSE escaped(text, from + 1)

KnownEscapes == {"\\", "\"", "'", "@", "n", "t"}

\* C8: at a double quote that opens a string literal whose closing double
\* quote (the first one not escaped by a backslash) exists, is on the same
\* line and is followed by a valid delimiter, the iteration consumes the
\* literal up to that closing quote; with only known escapes (backslash,
\* double quote, single quote, at, n, t) it appends exactly one string_lit
\* token, single quotes inside included, and with an unknown escape it
\* appends an ERROR token.
C8_StringEscapes ==
    (at_loop_head /\ peek(self, 0) = "\"") =>
        LET stop == closing_quote(source_code, position + 1)
            inside == {source_code[q + 1] : q \in (position + 1)..(stop - 1)}
            escapes == escaped(source_code, position + 1)
        IN  (/\ stop < Len(source_code)
             /\ "\n" \notin inside
             /\ doubq_dlm(char_at(source_code, stop + 1))
             /\ ~recent_string_lit(self))
            => \E took \in {iteration(self)} :
                  /\ took.routine = "td_string"
                  /\ took.lx.position = stop + 1
                  /\ IF escapes \subseteq KnownEscapes
                     THEN /\ Len(took.lx.tokens) = Len(tokens) + 1
                          /\ took.lx.tokens[Len(tokens) + 1].type = "string_lit"
                     ELSE \E i \in DOMAIN appended(self, took.lx) :
                              appended(self, took.lx)[i].type = "ERROR"

(***************************************************************************)
(* Properties of the parser.                                               *)
(***************************************************************************)
failed == history.failure # << >>

failure == history.failure[1]

\* C9: once a match or a check_id has met a token other than the expected
\* one, or the end of input, no token is consumed and no method is called
\* any more: the exception leaves the active calls, parse() returns None as
\* the AST with the error list of the Parser, and the errors recorded before
\* the failure are the head of that list, in order and unchanged.
C9_FailureUnwindsToParse ==
    failed =>
        /\ parser.position = failure.position
        /\ Len(frames) <= failure.depth
        /\ IsPrefix(failure.errors, parser.errors)
        /\ control = "done" =>
               /\ result.ast = NoneNode
               /\ result.errors = parser.errors
               /\ IsPrefix(failure.errors, result.errors)

\* parse() has returned after a match failed deep in the rules, with errors
\* recorded before the failure and one recorded by it.
C9_Witness ==
    /\ control = "done"
    /\ failed
    /\ failure.by = "match"
    /\ failure.depth >= 5
    /\ failure.errors # << >>
    /\ Len(result.errors) > Len(failure.errors)

increasing(s) == \A i, j \in 1..Len(s) : i < j => s[i] < s[j]

\* C10: the positions at which the ParseErrors of a run were recorded are
\* strictly increasing, so there is at most one per token position; a step
\* never decreases the position, and it appends an error, one at most, only
\* when the position differs from error_reported_at_position, which then
\* becomes the position; the list parse() returns is that list.
C10_OneErrorPerPosition ==
    /\ [](/\ Len(history.error_at) = Len(parser.errors)
          /\ increasing(history.error_at)
          /\ (parser.errors # << >> =>
                  parser.error_reported_at_position
                      = history.error_at[Len(history.error_at)])
          /\ (control = "done" => result.errors = parser.errors))
    /\ [][/\ parser'.position >= parser.position
          /\ IsPrefix(parser.errors, parser'.errors)
          /\ Len(parser'.errors) <= Len(parser.errors) + 1
          /\ (parser'.errors # parser.errors =>
                  /\ parser.position # parser.error_reported_at_position
                  /\ parser'.error_reported_at_position = parser.position
                  /\ parser'.position = parser.position)
          /\ (parser'.errors = parser.errors =>
                  parser'.error_reported_at_position
                      = parser.error_reported_at_position)]_vars

\* parse() has returned two errors, and a call of error() at a position that
\* already had one recorded nothing.
C10_Witness ==
    /\ control = "done"
    /\ history.suppressed >= 1
    /\ Len(result.errors) >= 2

(***************************************************************************)
(* C11: the children of the nodes of a returned AST.                       *)
(***************************************************************************)
\* The kinds of object a children list may hold: a node of the tree or a
\* string; None and a bound method are neither.
is_node_or_string(child) == child.type \notin {"None", "method"}

RECURSIVE children_are_nodes(_)
\* Every child, at every depth below the node, is a node or a string.
children_are_nodes(node) ==
    \A i \in 1..Len(node.children) :
        /\ is_node_or_string(node.children[i])
        /\ children_are_nodes(node.children[i])

RECURSIVE has_node(_, _)
\* The tree holds a node of the type.
has_node(node, type) ==
    \/ node.type = type
    \/ \E i \in 1..Len(node.children) : has_node(node.children[i], type)

\* C11: in every AST that parse() returns together with an empty error
\* list, each element of each node's children list is an ASTNode or a string
\* leaf; none is None or an object of another kind, for a function
\* definition with two parameters as for every other construct.
C11_ChildrenAreNodes ==
    (control = "done" /\ result.errors = << >> /\ result.ast # NoneNode) =>
        children_are_nodes(result.ast)

(***************************************************************************)
(* C12: the program that passes the three stages.                          *)
(***************************************************************************)
\* C12: the program `universal int x~ atmosphere() { x = 5~ }` passes the
\* three stages in order: tokenize returns no error token, parse returns a
\* program AST that is not None and an empty error list, and analyze on
\* that AST and those tokens returns an empty list of errors.
C12_SmokeProgramPasses ==
    source_code = chars(SmokeProgram) =>
        /\ pc = "returned" => lexical_errors = << >>
        /\ control = "done" =>
               /\ result.ast # NoneNode
               /\ result.ast.type = "program"
               /\ result.errors = << >>
        /\ semantic.called => semantic.errors = << >>

\* analyze has returned for that program, after tokenize and parse.
C12_Witness ==
    /\ source_code = chars(SmokeProgram)
    /\ pc = "returned"
    /\ control = "done"
    /\ result.ast.type = "program"
    /\ semantic.called

(***************************************************************************)
(* C13: analyze catches what the visitors raise.                           *)
(***************************************************************************)
\* The analyzer as the visit of the AST leaves it, before analyze looks at
\* what was raised.
visited_ast == visit(SemanticAnalyzer(result.ast, tokens), result.ast)

\* The diagnostic analyze makes of an exception.
generic_diagnostic(exception) ==
    SemanticError("Semantic analysis error: " \o exception, 0, 0)

\* C13: analyze never raises, whatever AST parse returned: an exception
\* raised inside a visitor is caught, one generic 'Semantic analysis error'
\* diagnostic is appended after the errors collected so far, and the list
\* is returned (without such a diagnostic when nothing was raised); on a
\* None AST analyze returns the single diagnostic 'No AST to analyze'.
C13_AnalyzeNeverRaises ==
    semantic.called =>
        /\ ~semantic.analyzer.raised
        /\ result.ast = NoneNode =>
               semantic.errors = <<SemanticError("No AST to analyze", 0, 0)>>
        /\ result.ast # NoneNode /\ visited_ast.raised =>
               semantic.errors =
                   Append(visited_ast.errors,
                          generic_diagnostic(visited_ast.exception))
        /\ result.ast # NoneNode /\ ~visited_ast.raised =>
               semantic.errors = visited_ast.errors \o visited_ast.warnings

\* analyze has returned an error a visitor collected and, after it, the
\* diagnostic of the exception _extract_params raised.
C13_Witness ==
    /\ semantic.called
    /\ Len(semantic.errors) = 2
    /\ semantic.errors[1].message
           = "Variable 'a' is already declared in this scope"
    /\ semantic.errors[2]
           = generic_diagnostic("'function' object has no attribute 'type'")

\* analyze has returned for a program parse returned None for.
C13_NoneWitness ==
    /\ semantic.called
    /\ result.ast = NoneNode
    /\ semantic.errors = <<SemanticError("No AST to analyze", 0, 0)>>

(***************************************************************************)
(* C14: a name declared twice.                                             *)
(***************************************************************************)
\* analyze has returned for a program of the family.
analyzed(programs) ==
    /\ semantic.called
    /\ \E text \in programs : source_code = chars(text)

\* analyze has returned an error whose message holds the words.
reports(words) ==
    \E i \in 1..Len(semantic.errors) :
        contains(semantic.errors[i].message, words)

\* C14: declaring a name (variable, constant, structure instance,
\* structure type, function or parameter) that the innermost frame of the
\* scope stack already holds reports an 'already declared' error, whatever
\* the kinds of the old and the new symbol and their order; declaring a
\* name that only an outer frame holds reports no error.
C14_RedeclarationReported ==
    /\ analyzed(SameFramePrograms) =>
           reports("is already declared") \/ reports("is already defined")
    /\ analyzed(OuterFramePrograms) => semantic.errors = << >>

(***************************************************************************)
(* C15: the use of a name no frame holds.                                  *)
(***************************************************************************)
\* C15: every use of an identifier that no frame of the scope stack holds
\* at the point of use reports an 'Undeclared identifier' error, wherever
\* the use is: in the initializer of a declaration, on the right-hand side
\* of an assignment, in the condition of an if or of a loop, in an argument
\* of a call or in an argument of exhale.
C15_UndeclaredReported ==
    analyzed(UndeclaredPrograms) => reports("Undeclared identifier 'y'")

(***************************************************************************)
(* C16: the permissive table of declarations and assignments.              *)
(***************************************************************************)
\* The pairs <<target, source>> of the permissive table: int and float,
\* char and int, char and float, bool and int, bool and float each in both
\* directions, and char into string.
PermissivePairs ==
    {<<"int", "float">>, <<"float", "int">>,
     <<"char", "int">>, <<"int", "char">>,
     <<"char", "float">>, <<"float", "char">>,
     <<"bool", "int">>, <<"int", "bool">>,
     <<"bool", "float">>, <<"float", "bool">>,
     <<"string", "char">>}

permitted(target_type, source_type) ==
    target_type = source_type \/ <<target_type, source_type>> \in PermissivePairs

\* The mismatch a declaration or an assignment of x reports.
mismatch_of(target_type, source_type) ==
    "Type mismatch: cannot assign '" \o source_type \o "' to '"
        \o target_type \o "' variable 'x'"

\* C16: _types_compatible(target, source) is true exactly when target =
\* source or the pair is in the permissive table (never from string to
\* another type, never between bool and char), so a declaration initializer
\* or an assignment of a string expression to an int or float variable
\* reports a type mismatch, and so does every pair outside the table, while
\* a pair of the table reports nothing.
C16_PermissiveTable ==
    /\ \A t \in DataTypes \union {"vacuum"}, s \in DataTypes \union {"vacuum"} :
           types_compatible(t, s) <=> permitted(t, s)
    /\ \A t \in DataTypes, s \in DataTypes :
           analyzed({declared_with(t, s), assigned_with(t, s)}) =>
               IF permitted(t, s) THEN semantic.errors = << >>
               ELSE /\ Len(semantic.errors) = 1
                    /\ semantic.errors[1].message = mismatch_of(t, s)

\* analyze has reported the mismatch of a string assigned to an int
\* variable,
C16_Witness ==
    /\ analyzed({assigned_with("int", "string")})
    /\ reports(mismatch_of("int", "string"))

\* and has reported nothing for a char declared with an int.
C16_TableWitness ==
    /\ analyzed({declared_with("char", "int")})
    /\ semantic.errors = << >>

(***************************************************************************)
(* C17: the arguments of a call of a user function.                        *)
(***************************************************************************)
\* The types the strict table converts: int and float into each other.
passable(param_type, arg_type) ==
    \/ param_type = arg_type
    \/ {param_type, arg_type} = {"int", "float"}

\* What the claim has analyze return for f(argument), f declared with the
\* parameters of the types param_types and called with arguments of the
\* types arg_types (each list of length 0 or 1).
call_errors_claimed(param_types, arg_types) ==
    IF Len(param_types) # Len(arg_types)
    THEN {IF Len(param_types) = 1
          THEN "Function 'f' expects 1 argument(s), got 0"
          ELSE "Function 'f' expects 0 argument(s), got 1"}
    ELSE IF Len(param_types) = 1 /\ ~passable(param_types[1], arg_types[1])
    THEN {"Argument 1 of function 'f': expected '" \o param_types[1]
              \o "', got '" \o arg_types[1] \o "'"}
    ELSE {}

\* The text of a list of at most one parameter, and of one argument.
parameters_of(param_types) ==
    IF param_types = << >> THEN "" ELSE param_types[1] \o " a"

argument_of(arg_types) ==
    IF arg_types = << >> THEN "" ELSE Literals[arg_types[1]]

\* The messages analyze has returned.
messages == {semantic.errors[i].message : i \in 1..Len(semantic.errors)}

\* C17: for a call of a declared user function in an AST of the parser,
\* the analyzer counts the arguments and checks them against the
\* parameters with the strict table: no error when the counts are equal
\* and each argument has the type of its parameter or is an int or float
\* for the other; an 'expects N argument(s), got M' error exactly when the
\* counts differ; an 'Argument i' error exactly when a type cannot be
\* converted, as a char passed for an int.
C17_CallArguments ==
    \A param_types \in {<< >>, <<"int">>},
       arg_types \in {<< >>, <<"int">>, <<"float">>, <<"char">>} :
        analyzed({call_of(parameters_of(param_types),
                          argument_of(arg_types))}) =>
            messages = call_errors_claimed(param_types, arg_types)

(***************************************************************************)
(* C18: the calls of built-in functions.                                   *)
(***************************************************************************)
\* C18: for every built-in call node of the parser, the analyzer finds the
\* built-in by its name, gives the call the type of that name in the table
\* of return types (toString is string, waft is float) and validates the
\* arguments by the rule of that name: `int x = toString(5)~` reports a
\* type mismatch, so does a string declared with waft, toRise of an int is
\* rejected, a call of waft with one argument is reported (by the parser
\* or by the analyzer), and the well-typed calls report nothing.
C18_BuiltinCalls ==
    /\ analyzed({"atmosphere() { int x = toString(5)~ }"}) =>
           reports(mismatch_of("int", "string"))
    /\ analyzed({"atmosphere() { string s = waft(1.5, 2)~ }"}) =>
           reports("Type mismatch: cannot assign 'float' to 'string'")
    /\ analyzed({"atmosphere() { string s = toRise(5)~ }"}) =>
           reports("'toRise' expects a string or char argument, got 'int'")
    /\ analyzed({"atmosphere() { float x = waft(1.5)~ }"}) =>
           \/ result.errors # << >>
           \/ reports("'waft' expects exactly 2 arguments, got 1")
    /\ analyzed({"atmosphere() { string s = toString(5)~ }",
                 "atmosphere() { float x = waft(1.5, 2)~ }"}) =>
           semantic.errors = << >>

(***************************************************************************)
(* C19: resist and flow, and what encloses them.                           *)
(***************************************************************************)
RECURSIVE unenclosed(_, _, _)
RECURSIVE unenclosed_from(_, _, _, _)
\* The number of ctrl_flow nodes of the word, at or below the node, with no
\* node of an enclosing type above them in the tree of the node.
unenclosed(node, word, enclosing) ==
    IF ~is_ASTNode(node) \/ node.type \in enclosing THEN 0
    ELSE IF node.type = "ctrl_flow"
    THEN (IF node.value = word THEN 1 ELSE 0)
    ELSE unenclosed_from(node, 1, word, enclosing)

\* The same below the children of the node from child i on.
unenclosed_from(node, i, word, enclosing) ==
    IF i > Len(node.children) THEN 0
    ELSE unenclosed(node.children[i], word, enclosing)
             + unenclosed_from(node, i + 1, word, enclosing)

\* The number of errors analyze has returned with the message.
reported(message) ==
    Cardinality({i \in 1..Len(semantic.errors) :
                    semantic.errors[i].message = message})

C19_StreamWitness ==
    /\ semantic.called
    /\ has_node(result.ast, "switch_stat")
    /\ unenclosed(result.ast, "flow", {"switch_stat"}) = 0
    /\ reported("'flow' (continue) must be inside a loop") = 1

(***************************************************************************)
(* C20: the members of a structure instance.                               *)
(***************************************************************************)
\* The programs of the family that access t.t; the structure of t has the
\* member m only.
UnknownMemberPrograms == {text \in MemberPrograms : contains(text, "t.t")}

\* C20: accessing `s.m` where s is a declared structure instance and m is
\* not in the member table of the structure type of s reports a 'not a
\* member of structure' error that names m, when the access is read (in an
\* expression, in an argument of exhale) and when it is the target of an
\* assignment; a member of the table is not reported; an assignment
\* through a constant structure instance is rejected.
C20_UnknownMemberReported ==
    /\ analyzed(UnknownMemberPrograms) =>
           reports("'t' is not a member of structure")
    /\ analyzed(MemberPrograms \ UnknownMemberPrograms) =>
           ~reports("is not a member of structure")
    /\ analyzed({text \in MemberPrograms : contains(text, "wind gust S t")})
           => reports("Cannot assign to constant 't'")

(***************************************************************************)
(* The operands of the modulus operator.                                   *)
(***************************************************************************)
\* C21: for an expression `a % b` in an AST the parser produced, the
\* analyzer reports a modulus error whenever the type of a or the type of b
\* is not int and reports none when both are int, and the type of the
\* expression is int: a string target is told it cannot take an 'int'.
C21_ModulusOperands ==
    \A target_type \in {"int", "string"}, left_type, right_type \in DataTypes :
        analyzed({modulus_of(target_type, left_type, right_type)}) =>
            /\ reports("Modulus operator")
                   <=> left_type # "int" \/ right_type # "int"
            /\ target_type = "string" =>
                   reports("cannot assign 'int' to 'string'")

(***************************************************************************)
(* Calls of functions the program defines.                                 *)
(***************************************************************************)
\* The programs of the family that call a function they define.
DefinedCallPrograms ==
    {text \in CallOrderPrograms : ~contains(text, "h()")}

\* C22: the signature of a function is in the global frame before its body
\* is visited, so a call of a function the program defines is not reported
\* as undeclared: not from the function's own body, and not from the body
\* of a function the source defines earlier or later.
C22_DefinedFunctionsCallable ==
    analyzed(DefinedCallPrograms) => ~reports("Undeclared")

(***************************************************************************)
(* The stages of one request.                                              *)
(***************************************************************************)
\* The errors the semantic stage produces for what the parser returned.
semantic_errors == IF semantic.called THEN semantic.errors ELSE << >>

\* C23: for one request the stages gate each other: the parser runs only
\* if the lexer produced no error token; the response reports the lexical
\* errors alone, else the syntax errors alone, else the semantic errors, and
\* it reports success, with the AST, only when none of the three stages
\* produced an error.
C23_StagesGateEachOther ==
    /\ control # "idle" => lexical_errors = << >>
    /\ responded /\ lexical_errors # << >> =>
           /\ ~parse_response.success
           /\ parse_response.lexical_errors = lexical_errors
           /\ parse_response.syntax_errors = << >>
    /\ responded /\ lexical_errors = << >> /\ result.errors # << >> =>
           /\ ~parse_response.success
           /\ parse_response.lexical_errors = << >>
           /\ parse_response.syntax_errors = result.errors
    /\ responded /\ parse_response.success =>
           /\ lexical_errors = << >>
           /\ result.errors = << >>
           /\ semantic_errors = << >>
           /\ result.ast # NoneNode
           /\ parse_response.ast = ASTNode_to_dict(result.ast)

(***************************************************************************)
(* Parameter lists.                                                        *)
(***************************************************************************)
RECURSIVE count_nodes(_, _)
\* The number of nodes of one of the types in the tree of node.
count_nodes(node, types) ==
    LET RECURSIVE below(_)
        below(i) ==
            IF i > Len(node.children) THEN 0
            ELSE below(i + 1)
                     + IF is_ASTNode(node.children[i])
                       THEN count_nodes(node.children[i], types) ELSE 0
    IN below(1) + IF node.type \in types THEN 1 ELSE 0

\* C24: a list of n >= 1 parameters `type id` with optional dimensions,
\* separated by commas, is consumed up to the closing `)` with no syntax
\* error, and the AST records one data_type and identifier pair per
\* parameter, in a params node and nested params_tail nodes; a function of
\* three parameters parses with no error.
C24_ParameterLists ==
    \A list \in ParameterLists :
        control = "done" /\ source_code = chars(defined_with(list[1])) =>
            /\ result.errors = << >>
            /\ result.ast # NoneNode
            /\ count_nodes(result.ast, {"params", "params_tail"}) = list[2]

(***************************************************************************)
(* Assignments to the members of a structure instance.                     *)
(***************************************************************************)
\* C25: for a member assignment `s.m = e`, s a declared non-constant
\* structure instance and m a member of its structure, e is checked against
\* the declared type of m and not against the type of s: a type mismatch is
\* reported exactly when the type of e is not convertible to the type of m
\* under the permissive table, m is not reported as an undeclared
\* identifier, and a value of m's own type reports no error at all.
C25_MemberAssignment ==
    \A member_type, source_type \in {"int", "string"} :
        analyzed({member_assigned(member_type, source_type)}) =>
            /\ ~reports("Undeclared identifier 'm'")
            /\ ~reports("variable 't'")
            /\ reports("Type mismatch")
                   <=> ~permitted(member_type, source_type)
            /\ member_type = source_type => semantic.errors = << >>

(***************************************************************************)
(* The scope stack.                                                        *)
(***************************************************************************)
\* scopes and scope_stack of an analyzer have the same length, at least 1,
\* and the global frame is the first.
scopes_aligned(sa) ==
    /\ Len(sa.scopes) = Len(sa.scope_stack)
    /\ Len(sa.scopes) >= 1
    /\ sa.scope_stack[1] = "global"

\* Programs whose analysis an exception ends inside a body: the analyzer
\* is left as it was at that point, since no exit_scope runs after it.
InterruptedInBody ==
    {"atmosphere() { int x~ x~ }", "air vacuum f() { x~ } atmosphere() { }"}

C26_InterruptedWitness ==
    /\ analyzed(InterruptedInBody)
    /\ semantic.analyzer.scope_stack = <<"global", "id1">>

(***************************************************************************)
(* What parse() returns, and where it stops.                               *)
(***************************************************************************)
\* C27: for every token sequence, the empty one included, parse() returns
\* a None AST only together with a non-empty error list: whenever the
\* error list it returns is empty the AST is a program node, so a caller
\* that tests only the error list never reports success without an AST.
C27_NoneOnlyWithErrors ==
    control = "done" =>
        /\ result.ast = NoneNode => result.errors # << >>
        /\ result.errors = << >> => result.ast.type = "program"

\* parse() has returned None and an error for the empty token sequence.
C27_Witness ==
    /\ control = "done"
    /\ parser.tokens = << >>
    /\ result.ast = NoneNode
    /\ result.errors # << >>

\* parse() has returned a program node and no error.
C27_ProgramWitness ==
    /\ control = "done"
    /\ result.errors = << >>
    /\ result.ast.type = "program"

\* C28: when parse() returns an AST and an empty error list, every token
\* of the input has been consumed: the closing `}` of the atmosphere block
\* is the last token, and no token follows it unread.
C28_AllTokensConsumed ==
    control = "done" /\ result.ast # NoneNode /\ result.errors = << >> =>
        /\ parser.position = Len(parser.tokens)
        /\ parser.tokens[Len(parser.tokens)].type = "}"

(***************************************************************************)
(* String literals and the positions of tokens.                            *)
(***************************************************************************)
\* C29: a string literal that is closed by its double quote and followed by
\* a valid delimiter gives exactly one string_lit token, appended to the
\* tokens emitted so far, whatever they are, and the empty literal does
\* too.  The literals here hold no backslash, single quote or newline.
C29_OneTokenPerStringLiteral ==
    (at_loop_head /\ peek(self, 0) = "\"") =>
        LET stop == closing_quote(source_code, position + 1)
            inside == {source_code[q + 1] : q \in (position + 1)..(stop - 1)}
        IN  (/\ stop < Len(source_code)
             /\ inside \cap {"\\", "'", "\n"} = {}
             /\ doubq_dlm(char_at(source_code, stop + 1)))
            => iteration(self).lx.tokens
                   = Append(tokens,
                            Token("string_lit",
                                  lexeme(source_code, position, stop + 1),
                                  line, column))

\* C30: the line and column of every token that is not an error are the
\* line and column of the first character of its lexeme, which is where
\* the iteration that appends the token starts, for every token class:
\* keywords, identifiers, literals, operators, brackets and punctuation.
C30_TokenPositions ==
    at_loop_head =>
        \A t \in Range(appended(self, iteration(self).lx)) :
            ~t.is_error => t.line = line /\ t.column = column

====
